---- MODULE Spec2Model ----
(***************************************************************************)
(* Model of the jsl query engine (bisegni/jsl): the path/filter evaluator, *)
(* the boolean expression builders, the statement grammar and its lowering *)
(* to the query IR, the planner and the pull-based execution nodes.        *)
(*                                                                         *)
(* Go strings are sequences of one-character strings, so that splitting,   *)
(* prefix tests, formatting and parsing are computed, not assumed.         *)
(* Go values (interface{}) are records [t, v] with a type tag t.           *)
(***************************************************************************)
EXTENDS Integers, Sequences, FiniteSets, TLC

(***************************************************************************)
(* Strings                                                                 *)
(***************************************************************************)

\* The characters of the model, in byte (ASCII) order.
Alphabet ==
    << " ", "!", "%", "'", "(", ")", "*", ",", "-", ".",
       "0", "1", "2", "3", "4", "5", "6", "7", "8", "9",
       ":", "<", "=", ">",
       "A", "B", "C", "D", "E", "F", "G", "H", "I", "J", "K", "L", "M",
       "N", "O", "P", "Q", "R", "S", "T", "U", "V", "W", "X", "Y", "Z",
       "[", "]", "_",
       "a", "b", "c", "d", "e", "f", "g", "h", "i", "j", "k", "l", "m",
       "n", "o", "p", "q", "r", "s", "t", "u", "v", "w", "x", "y", "z",
       "~" >>

\* the position of every character in the byte order
CodeOf == [c \in {Alphabet[i] : i \in 1..Len(Alphabet)} |-> CHOOSE i \in 1..Len(Alphabet) : Alphabet[i] = c]

Code(c) == CodeOf[c]

Digits == <<"0", "1", "2", "3", "4", "5", "6", "7", "8", "9">>

DigitSet == {Digits[i] : i \in 1..10}

UpperSet == {Alphabet[i] : i \in CodeOf["A"]..CodeOf["Z"]}

LowerSet == {Alphabet[i] : i \in CodeOf["a"]..CodeOf["z"]}

DigitValOf == [c \in DigitSet |-> (CHOOSE i \in 1..10 : Digits[i] = c) - 1]

UpperOf == [c \in LowerSet |-> Alphabet[CodeOf[c] - CodeOf["a"] + CodeOf["A"]]]

IsDigit(c) == c \in DigitSet

DigitVal(c) == DigitValOf[c]

IsUpper(c) == c \in UpperSet

IsLower(c) == c \in LowerSet

IsLetter(c) == IsUpper(c) \/ IsLower(c)

UpperChar(c) == IF IsLower(c) THEN UpperOf[c] ELSE c

\* strings.ToUpper
ToUpper(s) == [i \in 1..Len(s) |-> UpperChar(s[i])]

\* s[from:] with a 1-based first position
Drop(s, n) == SubSeq(s, n + 1, Len(s))

Take(s, n) == SubSeq(s, 1, n)

\* strings.HasPrefix / strings.HasSuffix
HasPrefix(s, p) == Len(p) <= Len(s) /\ Take(s, Len(p)) = p

HasSuffix(s, p) == Len(p) <= Len(s) /\ Drop(s, Len(s) - Len(p)) = p

\* the least member of a non-empty set of integers, and the greatest
Least(S) == CHOOSE i \in S : \A k \in S : i <= k

Greatest(S) == CHOOSE i \in S : \A k \in S : k <= i

\* the 0-based positions at which sub occurs in s
Occurrences(s, sub) == {i \in 0..(Len(s) - Len(sub)) : \A j \in 1..Len(sub) : s[i + j] = sub[j]}

\* strings.Index: the 0-based position of the first occurrence, -1 if none
Index(s, sub) == IF Occurrences(s, sub) = {} THEN -1 ELSE Least(Occurrences(s, sub))

\* strings.Contains
Contains(s, sub) == Index(s, sub) # -1

\* strings.TrimSpace (the only white space of the model is the blank)
NonBlank(s) == {i \in 1..Len(s) : s[i] # " "}

TrimSpace(s) == IF NonBlank(s) = {} THEN <<>> ELSE SubSeq(s, Least(NonBlank(s)), Greatest(NonBlank(s)))

\* strings.TrimPrefix
TrimPrefix(s, p) == IF HasPrefix(s, p) THEN Drop(s, Len(p)) ELSE s

\* strings.Split for a non-empty separator
RECURSIVE Split(_, _)
Split(s, sep) ==
    LET i == Index(s, sep)
    IN IF i = -1 THEN <<s>>
       ELSE <<Take(s, i)>> \o Split(Drop(s, i + Len(sep)), sep)

\* strings.Join
RECURSIVE Join(_, _)
Join(parts, sep) ==
    IF parts = <<>> THEN <<>>
    ELSE IF Len(parts) = 1 THEN parts[1]
    ELSE parts[1] \o sep \o Join(Tail(parts), sep)

\* strings.ReplaceAll for one-character old and new
ReplaceAll(s, old, new) == [i \in 1..Len(s) |-> IF s[i] = old THEN new ELSE s[i]]

\* Go's < on strings: bytewise lexicographic order
RECURSIVE StrLess(_, _)
StrLess(a, b) ==
    IF b = <<>> THEN FALSE
    ELSE IF a = <<>> THEN TRUE
    ELSE IF a[1] # b[1] THEN Code(a[1]) < Code(b[1])
    ELSE StrLess(Tail(a), Tail(b))

\* strconv.Itoa, and %v of an integral float64
RECURSIVE NatStr(_)
NatStr(n) == IF n < 10 THEN <<Digits[n + 1]>> ELSE NatStr(n \div 10) \o <<Digits[(n % 10) + 1]>>

IntStr(n) == IF n < 0 THEN <<"-">> \o NatStr(0 - n) ELSE NatStr(n)

IsDigitStr(s) == s # <<>> /\ \A i \in 1..Len(s) : IsDigit(s[i])

RECURSIVE DigitsVal(_)
DigitsVal(s) == IF s = <<>> THEN 0 ELSE DigitsVal(Take(s, Len(s) - 1)) * 10 + DigitVal(s[Len(s)])

\* strconv.ParseFloat restricted to the integral decimal numerals the model
\* contains: an optional sign followed by digits.
ParseFloat(s) ==
    IF s # <<>> /\ s[1] = "-" /\ IsDigitStr(Tail(s)) THEN [ok |-> TRUE, f |-> 0 - DigitsVal(Tail(s))]
    ELSE IF IsDigitStr(s) THEN [ok |-> TRUE, f |-> DigitsVal(s)]
    ELSE [ok |-> FALSE, f |-> 0]

\* strconv.Atoi
Atoi(s) == ParseFloat(s)

(***************************************************************************)
(* Local variables: With(e, LAMBDA x : body) is body with x bound to the   *)
(* value of e, the form the definitions below use for the intermediate     *)
(* results of the code.                                                    *)
(***************************************************************************)

With(first, In(_)) == In(first)

With2(first, second, In(_, _)) == In(first, second)

(***************************************************************************)
(* Values                                                                  *)
(***************************************************************************)

Null == [t |-> "null", v |-> 0]

Num(n) == [t |-> "num", v |-> n]

Str(s) == [t |-> "str", v |-> s]

Bool(b) == [t |-> "bool", v |-> b]

\* []interface{}
Arr(s) == [t |-> "arr", v |-> s]

\* map[string]interface{} / parser.Record: a function from keys to values
Map(f) == [t |-> "map", v |-> f]

\* database.OrderedMap: a sequence of KeyVal
OMap(kvs) == [t |-> "omap", v |-> kvs]

KeyVal(k, x) == [Key |-> k, Val |-> x]

\* a computation that returns (value, error)
Ok(x) == [ok |-> TRUE, val |-> x]

Err == [ok |-> FALSE, val |-> Null]

\* The keys of a map in sorted order
RECURSIVE SortedKeys(_)
SortedKeys(ks) ==
    IF ks = {} THEN <<>>
    ELSE LET k == CHOOSE x \in ks : \A y \in ks : x = y \/ StrLess(x, y)
         IN <<k>> \o SortedKeys(ks \ {k})

\* fmt.Sprintf("%v", x)
RECURSIVE Sprintf(_)
Sprintf(x) ==
    CASE x.t = "null" -> <<"<", "n", "i", "l", ">">>
      [] x.t = "bool" -> IF x.v THEN <<"t", "r", "u", "e">> ELSE <<"f", "a", "l", "s", "e">>
      [] x.t = "num" -> IntStr(x.v)
      [] x.t = "str" -> x.v
      [] x.t = "arr" ->
            <<"[">> \o Join([i \in 1..Len(x.v) |-> Sprintf(x.v[i])], <<" ">>) \o <<"]">>
      [] x.t = "map" ->
            With(SortedKeys(DOMAIN x.v), LAMBDA ks :
                <<"m", "a", "p", "[">>
                \o Join([i \in 1..Len(ks) |-> ks[i] \o <<":">> \o Sprintf(x.v[ks[i]])], <<" ">>)
                \o <<"]">>)

(***************************************************************************)
(* Comparison rules of the filter evaluator (package query)                *)
(***************************************************************************)

\* query.toFloat64: numbers convert directly; every other value goes
\* through its %v form
toFloat64(x) == IF x.t = "num" THEN [ok |-> TRUE, f |-> x.v] ELSE ParseFloat(Sprintf(x))

compareEqual(a, b) ==
    IF a.t = b.t /\ a.t \in {"str", "num", "bool"} THEN a.v = b.v
    ELSE Sprintf(a) = Sprintf(b)

compareGreater(a, b) ==
    With2(toFloat64(a), toFloat64(b), LAMBDA af, bf : af.ok /\ bf.ok /\ af.f > bf.f)

compareGreaterEqual(a, b) ==
    With2(toFloat64(a), toFloat64(b), LAMBDA af, bf : af.ok /\ bf.ok /\ af.f >= bf.f)

compareLess(a, b) ==
    With2(toFloat64(a), toFloat64(b), LAMBDA af, bf : af.ok /\ bf.ok /\ af.f < bf.f)

compareLessEqual(a, b) ==
    With2(toFloat64(a), toFloat64(b), LAMBDA af, bf : af.ok /\ bf.ok /\ af.f <= bf.f)

containsValue(a, b) == Contains(Sprintf(a), Sprintf(b))

\* the operator switch shared by Filter.matchValue and extractFromMap
OpEq == <<"=">>
OpEq2 == <<"=", "=">>
OpNe == <<"!", "=">>
OpGt == <<">">>
OpGe == <<">", "=">>
OpLt == <<"<">>
OpLe == <<"<", "=">>
OpTilde == <<"~", "=">>
OpContains == <<"c", "o", "n", "t", "a", "i", "n", "s">>

compareByOperator(op, a, b) ==
    CASE op = OpEq \/ op = OpEq2 -> compareEqual(a, b)
      [] op = OpNe -> ~compareEqual(a, b)
      [] op = OpGt -> compareGreater(a, b)
      [] op = OpGe -> compareGreaterEqual(a, b)
      [] op = OpLt -> compareLess(a, b)
      [] op = OpLe -> compareLessEqual(a, b)
      [] op = OpContains -> containsValue(a, b)
      [] OTHER -> FALSE

(***************************************************************************)
(* Path evaluator (package query)                                          *)
(***************************************************************************)

operators == <<OpGe, OpLe, OpNe, OpTilde, OpGt, OpLt, OpEq>>

\* IsFilterExpression: contains an operator and does not start with a dot
IsFilterExpression(expr) ==
    /\ ~HasPrefix(expr, <<".">>)
    /\ \E i \in 1..Len(operators) : Contains(expr, operators[i])

\* a nil *FilterExpr
NilFilterExpr == [nil |-> TRUE, Field |-> <<>>, Operator |-> <<>>, Value |-> <<>>]

\* &FilterExpr{...}: ~= is kept as "contains"
FilterExpr(field, op, value) ==
    [nil |-> FALSE, Field |-> field,
     Operator |-> IF op = OpTilde THEN OpContains ELSE op, Value |-> value]

\* the loop of ParseFilterExpression over the operators, from the i-th on
RECURSIVE parseFilterFrom(_, _)
parseFilterFrom(expr, i) ==
    IF i > Len(operators) THEN NilFilterExpr
    ELSE With(Index(expr, operators[i]), LAMBDA idx :
            IF idx <= 0 THEN parseFilterFrom(expr, i + 1)
            ELSE With2(TrimSpace(Take(expr, idx)),
                       TrimSpace(Drop(expr, idx + Len(operators[i]))),
                       LAMBDA field, value :
                          IF field # <<>> /\ value # <<>>
                          THEN FilterExpr(field, operators[i], value)
                          ELSE parseFilterFrom(expr, i + 1)))

\* ParseFilterExpression: the first operator of the list found at a
\* position > 0 with a non-empty field and value; nil when there is none
ParseFilterExpression(expr) == parseFilterFrom(expr, 1)

\* parsePath: the loop over the bytes of the path; i is the 1-based position
RECURSIVE parsePathLoop(_, _, _, _)
parsePathLoop(path, i, parts, current) ==
    IF i > Len(path) THEN Append(parts, current)
    ELSE IF path[i] = "."
    THEN LET rest == Drop(path, i)
             nextDot == Index(rest, <<".">>)
             segment == IF nextDot # -1 THEN Take(rest, nextDot) ELSE rest
             hasOp == \E k \in 1..Len(operators) : Contains(segment, operators[k])
             isSeparator == IF hasOp THEN current = <<"*">> \/ current = <<"%">> ELSE TRUE
         IN IF isSeparator
            THEN parsePathLoop(path, i + 1, Append(parts, current), <<>>)
            ELSE parsePathLoop(path, i + 1, parts, Append(current, path[i]))
    ELSE parsePathLoop(path, i + 1, parts, Append(current, path[i]))

parsePath(path0) ==
    LET path == TrimPrefix(path0, <<".">>)
    IN IF path = <<>> THEN <<>>
       ELSE SelectSeq(parsePathLoop(path, 1, <<>>, <<>>), LAMBDA p : p # <<>>)

\* the key predicate of a wildcard segment: "*" alone matches every key
wildcardOperator(part) ==
    IF part = <<"*">> \/ part = <<"%">> THEN [op |-> <<"*">>, val |-> <<>>]
    ELSE LET hits == {k \in 1..Len(operators) :
                        \/ HasPrefix(part, <<"*">> \o operators[k])
                        \/ HasPrefix(part, <<"%">> \o operators[k])}
         IN IF hits = {} THEN [op |-> <<>>, val |-> <<>>]
            ELSE LET k == CHOOSE h \in hits : \A j \in hits : h <= j
                 IN [op |-> operators[k], val |-> Drop(part, Len(operators[k]) + 1)]

keyMatches(op, k, filterValue) ==
    CASE op = <<"*">> -> TRUE
      [] op = OpEq -> k = filterValue
      [] op = OpNe -> k # filterValue
      [] op = OpTilde -> Contains(k, filterValue)
      [] op = OpGt -> StrLess(filterValue, k)
      [] op = OpGe -> ~StrLess(k, filterValue)
      [] op = OpLt -> StrLess(k, filterValue)
      [] op = OpLe -> ~StrLess(filterValue, k)
      [] OTHER -> FALSE

RECURSIVE extractValue(_, _)
RECURSIVE extractFromMap(_, _, _)
RECURSIVE Extract(_, _)

\* Query.Extract on a record
Extract(record, path) ==
    IF path = <<>> \/ path = <<".">> THEN Ok(Map(record))
    ELSE extractValue(Map(record), parsePath(path))

\* the wildcard and plain-key part of extractFromMap
extractFromMapKeys(m, part, remaining) ==
    IF ~HasPrefix(part, <<"*">>) /\ ~HasPrefix(part, <<"%">>)
    THEN IF part \in DOMAIN m THEN extractValue(m[part], remaining) ELSE Err
    ELSE With(wildcardOperator(part), LAMBDA w :
            IF w.op = <<>> THEN Err
            ELSE With([k \in {x \in DOMAIN m : keyMatches(w.op, x, w.val)} |->
                            extractValue(m[k], remaining)],
                      LAMBDA found :
                         With({k \in DOMAIN found : found[k].ok}, LAMBDA keep :
                            IF keep = {} THEN Err
                            ELSE Ok(Map([k \in keep |-> found[k].val])))))

\* the filter value of a path segment: "try number first"
filterValueOf(text) == With(ParseFloat(text), LAMBDA n : IF n.ok THEN Num(n.f) ELSE Str(text))

\* the comparison of the sibling field sib with the filter value of expr:
\* "none" when the field is missing
filterOutcome(expr, sib) ==
    IF ~sib.ok THEN "none"
    ELSE IF compareByOperator(expr.Operator, sib.val, filterValueOf(expr.Value)) THEN "match"
    ELSE "mismatch"

\* the segment as a filter on the fields of m: "none" when it is not one
filterOnMap(m, expr) ==
    IF expr.nil THEN "none" ELSE filterOutcome(expr, Extract(m, expr.Field))

\* variant: after a match the remaining path is applied to the value of
\* the compared field
extractFromMapIntoField(m, part, remaining) ==
    With(IF IsFilterExpression(part) THEN filterOnMap(m, ParseFilterExpression(part)) ELSE "none",
         LAMBDA outcome :
            CASE outcome = "match" ->
                    extractValue(Extract(m, ParseFilterExpression(part).Field).val, remaining)
              [] outcome = "mismatch" -> Err
              [] OTHER -> extractFromMapKeys(m, part, remaining))

extractFromMap(m, part, remaining) ==
    With(IF IsFilterExpression(part) THEN filterOnMap(m, ParseFilterExpression(part)) ELSE "none",
         LAMBDA outcome :
            CASE outcome = "match" -> extractValue(Map(m), remaining)
              [] outcome = "mismatch" -> Err
              [] OTHER -> extractFromMapKeys(m, part, remaining))

\* the elements of a slice the remaining path extracts, in order
extractFromSlice(items, remaining) ==
    With(SelectSeq([i \in 1..Len(items) |-> extractValue(items[i], remaining)],
                   LAMBDA r : r.ok),
         LAMBDA oks : Ok(Arr([i \in 1..Len(oks) |-> oks[i].val])))

extractValue(data, parts) ==
    IF parts = <<>> THEN Ok(data)
    ELSE CASE data.t = "map" -> extractFromMap(data.v, parts[1], Tail(parts))
           [] data.t = "arr" ->
                 IF parts[1] = <<"*">> \/ parts[1] = <<"%">>
                 THEN extractFromSlice(data.v, Tail(parts))
                 ELSE With(Atoi(parts[1]), LAMBDA idx :
                         IF ~idx.ok THEN Err
                         ELSE IF idx.f < 0 \/ idx.f >= Len(data.v) THEN Err
                         ELSE extractValue(data.v[idx.f + 1], Tail(parts)))
           [] OTHER -> Err

(***************************************************************************)
(* Filter and the boolean expression tree (package query)                  *)
(***************************************************************************)

NewFilter(field, operator, value) == [Field |-> field, Operator |-> operator, Value |-> value]

\* Filter.matchValue: any element of a collection, recursively
RECURSIVE matchValue(_, _)
matchValue(f, value) ==
    CASE value.t = "map" -> \E k \in DOMAIN value.v : matchValue(f, value.v[k])
      [] value.t = "arr" -> \E i \in 1..Len(value.v) : matchValue(f, value.v[i])
      [] OTHER -> compareByOperator(f.Operator, value, f.Value)

\* variant: the extracted value is compared as it is, collections included
MatchNoCollections(f, record) ==
    With(Extract(record, f.Field), LAMBDA r :
        IF ~r.ok THEN FALSE ELSE compareByOperator(f.Operator, r.val, f.Value))

\* variant: a field that cannot be extracted is unequal to every value
MatchMissingIsUnequal(f, record) ==
    With(Extract(record, f.Field), LAMBDA r :
        IF ~r.ok THEN f.Operator = OpNe ELSE matchValue(f, r.val))

\* Filter.Match
Match(f, record) ==
    With(Extract(record, f.Field), LAMBDA r :
        IF ~r.ok THEN FALSE ELSE matchValue(f, r.val))

Condition(f) == [kind |-> "cond", Filter |-> f]

AndExpression(l, r) == [kind |-> "and", Left |-> l, Right |-> r]

OrExpression(l, r) == [kind |-> "or", Left |-> l, Right |-> r]

\* a nil Expression
NilExpr == [kind |-> "nil"]

\* Expression.Evaluate
RECURSIVE Evaluate(_, _)
Evaluate(e, record) ==
    CASE e.kind = "cond" -> Match(e.Filter, record)
      [] e.kind = "and" -> Evaluate(e.Left, record) /\ Evaluate(e.Right, record)
      [] e.kind = "or" -> Evaluate(e.Left, record) \/ Evaluate(e.Right, record)

(***************************************************************************)
(* Statement lexer (sqlLexer of package query)                             *)
(***************************************************************************)

Keywords ==
    { <<"S", "E", "L", "E", "C", "T">>, <<"F", "R", "O", "M">>, <<"W", "H", "E", "R", "E">>,
      <<"G", "R", "O", "U", "P">>, <<"B", "Y">>, <<"A", "S">>, <<"A", "N", "D">>, <<"O", "R">>,
      <<"T", "R", "U", "E">>, <<"F", "A", "L", "S", "E">>,
      <<"C", "O", "N", "T", "A", "I", "N", "S">> }

WordChars == UpperSet \cup LowerSet \cup DigitSet \cup {"_"}

\* the positions of s that hold a character outside the set cs
Outside(s, cs) == {i \in 1..Len(s) : s[i] \notin cs}

\* the length of the longest run of characters of set cs at the head of s
RunLen(s, cs) == IF Outside(s, cs) = {} THEN Len(s) ELSE Least(Outside(s, cs)) - 1

Token(type, value) == [type |-> type, value |-> value]

\* Number: [-+]?\d*\.?\d+ ; the length of the match at the head of s, 0 if none
numberLen(s) ==
    LET sign == IF s # <<>> /\ s[1] \in {"-", "+"} THEN 1 ELSE 0
        r1 == Drop(s, sign)
        d1 == RunLen(r1, DigitSet)
        r2 == Drop(r1, d1)
        d2 == IF r2 # <<>> /\ r2[1] = "." THEN RunLen(Tail(r2), DigitSet) ELSE 0
    IN IF d2 > 0 THEN sign + d1 + 1 + d2
       ELSE IF d1 > 0 THEN sign + d1
       ELSE 0

\* String: '[^']*'|"[^"]*" ; the length of the match at the head of s, 0 if none
stringLen(s) ==
    IF s # <<>> /\ s[1] \in {"'", "\""}
    THEN LET close == Index(Tail(s), <<s[1]>>) IN IF close = -1 THEN 0 ELSE close + 2
    ELSE 0

\* Operator: >=|<=|!=|~=|\.\.|[=<>!~]
operatorLen(s) ==
    IF \E op \in {OpGe, OpLe, OpNe, OpTilde, <<".", ".">>} : HasPrefix(s, op) THEN 2
    ELSE IF s # <<>> /\ s[1] \in {"=", "<", ">", "!", "~"} THEN 1
    ELSE 0

\* Punct: [-+/*%,.()]
punctLen(s) ==
    IF s # <<>> /\ s[1] \in {"-", "+", "/", "*", "%", ",", ".", "(", ")"} THEN 1 ELSE 0

\* Keyword: (?i)\b(SELECT|...)\b ; the length of the match at the head of s
keywordLen(s) ==
    With(RunLen(s, WordChars), LAMBDA word :
        IF word > 0 /\ IsLetter(s[1]) /\ ToUpper(Take(s, word)) \in Keywords THEN word ELSE 0)

\* Ident: [a-zA-Z_][a-zA-Z0-9_]*
identLen(s) == IF s # <<>> /\ (IsLetter(s[1]) \/ s[1] = "_") THEN RunLen(s, WordChars) ELSE 0

\* Whitespace: \s+
whitespaceLen(s) == RunLen(s, {" "})

Rule(name, n) == [name |-> name, n |-> n]

\* the rules in declaration order, each with the length of its match at the
\* head of s
ruleMatches(s) ==
    << Rule("Keyword", keywordLen(s)), Rule("Ident", identLen(s)),
       Rule("Number", numberLen(s)), Rule("String", stringLen(s)),
       Rule("Operator", operatorLen(s)), Rule("Punct", punctLen(s)),
       Rule("Whitespace", whitespaceLen(s)) >>

NoRule == Rule("", 0)

\* the first rule, from the i-th on, that matches
RECURSIVE firstRule(_, _)
firstRule(rs, i) ==
    IF i > Len(rs) THEN NoRule ELSE IF rs[i].n > 0 THEN rs[i] ELSE firstRule(rs, i + 1)

\* the token of a match; white space is elided and a String token loses
\* its quotes
tokenOf(s, rule) ==
    CASE rule.name = "Whitespace" -> <<>>
      [] rule.name = "String" -> <<Token("String", SubSeq(s, 2, rule.n - 1))>>
      [] OTHER -> <<Token(rule.name, Take(s, rule.n))>>

\* what the token sequence ends with when no rule matches
LexError == Token("Error", <<>>)

\* The first rule, in declaration order, that matches at the head of s decides
\* the token; the white space that follows a token is elided with it.
nextText(s, rule) == Drop(s, rule.n + whitespaceLen(Drop(s, rule.n)))

RECURSIVE lexFrom(_, _)
lexFrom(s, rule) ==
    CASE s = <<>> -> <<>>
      [] s # <<>> /\ rule.n = 0 -> <<LexError>>
      [] OTHER -> tokenOf(s, rule)
                  \o lexFrom(nextText(s, rule), firstRule(ruleMatches(nextText(s, rule)), 1))

lexTokens(s) == lexFrom(s, firstRule(ruleMatches(s), 1))

\* the tokens of s; anything no rule matches is a lexing error
Lex(s) ==
    With(lexTokens(s), LAMBDA toks :
        IF toks # <<>> /\ toks[Len(toks)] = LexError THEN [ok |-> FALSE, tokens |-> <<>>]
        ELSE [ok |-> TRUE, tokens |-> toks])

(***************************************************************************)
(* Statement grammar (the AST structs of package query).  Each parse       *)
(* operator takes the token sequence and a position and returns the set of *)
(* its parses [pos, ast]: empty when the rule does not match, else the one *)
(* parse; alternatives are tried in declaration order.                     *)
(***************************************************************************)

\* no parse
Fail == {}

\* the one parse that ends before position pos with tree ast
Parsed(pos, ast) == {[pos |-> pos, ast |-> ast]}

\* ordered choice: the first alternative that matches
OrElse(a, b) == IF a # {} THEN a ELSE b

\* an item of a repetition put before each parse of the items after it
Cons(a, tails) == {[pos |-> t.pos, ast |-> <<a.ast>> \o t.ast] : t \in tails}

\* a literal of the grammar matches a token by value; Keyword tokens are
\* compared case-insensitively
tokIs(toks, pos, lit) ==
    /\ pos <= Len(toks)
    /\ \/ toks[pos].value = lit
       \/ toks[pos].type = "Keyword" /\ ToUpper(toks[pos].value) = lit

tokType(toks, pos, type) == pos <= Len(toks) /\ toks[pos].type = type

KwSELECT == <<"S", "E", "L", "E", "C", "T">>
KwFROM == <<"F", "R", "O", "M">>
KwWHERE == <<"W", "H", "E", "R", "E">>
KwGROUP == <<"G", "R", "O", "U", "P">>
KwBY == <<"B", "Y">>
KwAS == <<"A", "S">>
KwAND == <<"A", "N", "D">>
KwOR == <<"O", "R">>
KwTRUE == <<"T", "R", "U", "E">>
KwFALSE == <<"F", "A", "L", "S", "E">>
KwCONTAINS == <<"C", "O", "N", "T", "A", "I", "N", "S">>

\* the comparison operators ASTSimpleCondition.Op accepts
CompareOps == {OpEq, OpNe, OpGt, OpLt, OpGe, OpLe, KwCONTAINS}

\* ASTValue: (@Ident | @('*')) ('.' (@Ident | @('*')))*
isValuePart(toks, pos) == tokType(toks, pos, "Ident") \/ tokIs(toks, pos, <<"*">>)

RECURSIVE parseValueTail(_, _, _)
parseValueTail(toks, pos, parts) ==
    IF tokIs(toks, pos, <<".">>) /\ isValuePart(toks, pos + 1)
    THEN parseValueTail(toks, pos + 2, Append(parts, toks[pos + 1].value))
    ELSE Parsed(pos, [Parts |-> parts])

parseASTValue(toks, pos) ==
    IF isValuePart(toks, pos) THEN parseValueTail(toks, pos + 1, <<toks[pos].value>>) ELSE Fail

\* ASTLiteral: @Number | @String | @('TRUE'|'FALSE')
parseASTLiteral(toks, pos) ==
    CASE tokType(toks, pos, "Number") /\ ParseFloat(toks[pos].value).ok ->
            Parsed(pos + 1, [kind |-> "Number", Number |-> ParseFloat(toks[pos].value).f])
      [] tokType(toks, pos, "String") ->
            Parsed(pos + 1, [kind |-> "StrVal", StrVal |-> toks[pos].value])
      [] tokIs(toks, pos, KwTRUE) \/ tokIs(toks, pos, KwFALSE) ->
            Parsed(pos + 1, [kind |-> "Bool", Bool |-> ToUpper(toks[pos].value) = KwTRUE])
      [] OTHER -> Fail

RECURSIVE parseASTSelect(_, _)
RECURSIVE parseASTExpression(_, _)
RECURSIVE parseASTOperand(_, _)

\* (',' @@)* of ASTFunction.Args
RECURSIVE parseArgsTail(_, _)
parseArgsTail(toks, pos) ==
    IF tokIs(toks, pos, <<",">>)
    THEN OrElse(UNION {Cons(a, parseArgsTail(toks, a.pos)) : a \in parseASTOperand(toks, pos + 1)},
                Parsed(pos, <<>>))
    ELSE Parsed(pos, <<>>)

\* ASTFunction: @Ident '(' @@ (',' @@)* ')'
parseASTFunction(toks, pos) ==
    IF tokType(toks, pos, "Ident") /\ tokIs(toks, pos + 1, <<"(">>)
    THEN {[pos |-> as.pos + 1, ast |-> [Name |-> toks[pos].value, Args |-> as.ast]] :
             as \in {l \in UNION {Cons(a, parseArgsTail(toks, a.pos)) :
                                     a \in parseASTOperand(toks, pos + 2)} :
                        tokIs(toks, l.pos, <<")">>)}}
    ELSE Fail

\* '(' SubQuery ')' of ASTOperand and ASTFromClause
parseSubQuery(toks, pos) ==
    IF tokIs(toks, pos, <<"(">>)
    THEN {[pos |-> q.pos + 1, ast |-> [kind |-> "SubQuery", SubQuery |-> q.ast]] :
             q \in {s \in parseASTSelect(toks, pos + 1) : tokIs(toks, s.pos, <<")">>)}}
    ELSE Fail

\* ASTOperand: Function | Literal | Value | '(' SubQuery ')'
parseASTOperand(toks, pos) ==
    OrElse({[pos |-> f.pos, ast |-> [kind |-> "Function", Function |-> f.ast]] :
               f \in parseASTFunction(toks, pos)},
    OrElse({[pos |-> l.pos, ast |-> [kind |-> "Literal", Literal |-> l.ast]] :
               l \in parseASTLiteral(toks, pos)},
    OrElse({[pos |-> v.pos, ast |-> [kind |-> "Value", Value |-> v.ast]] :
               v \in parseASTValue(toks, pos)},
           parseSubQuery(toks, pos))))

\* ( Op Value )? after the operand o
parseOpValue(toks, o) ==
    OrElse(IF \E op \in CompareOps : tokIs(toks, o.pos, op)
           THEN {[pos |-> v.pos, ast |-> [Operand |-> o.ast, hasOp |-> TRUE,
                                          Op |-> toks[o.pos].value, Value |-> v.ast]] :
                    v \in parseASTOperand(toks, o.pos + 1)}
           ELSE Fail,
           Parsed(o.pos, [Operand |-> o.ast, hasOp |-> FALSE, Op |-> <<>>, Value |-> <<>>]))

\* ASTSimpleCondition: Operand ( Op Value )?
parseASTSimpleCondition(toks, pos) ==
    UNION {parseOpValue(toks, o) : o \in parseASTOperand(toks, pos)}

\* ASTCondition: '(' Grouped ')' | Simple
parseASTCondition(toks, pos) ==
    OrElse(IF tokIs(toks, pos, <<"(">>)
           THEN {[pos |-> g.pos + 1, ast |-> [kind |-> "Grouped", Grouped |-> g.ast]] :
                    g \in {e \in parseASTExpression(toks, pos + 1) : tokIs(toks, e.pos, <<")">>)}}
           ELSE Fail,
           {[pos |-> c.pos, ast |-> [kind |-> "Simple", Simple |-> c.ast]] :
               c \in parseASTSimpleCondition(toks, pos)})

\* ('AND' @@)* of ASTOrCondition.And
RECURSIVE parseAndTail(_, _)
parseAndTail(toks, pos) ==
    IF tokIs(toks, pos, KwAND)
    THEN OrElse(UNION {Cons(a, parseAndTail(toks, a.pos)) : a \in parseASTCondition(toks, pos + 1)},
                Parsed(pos, <<>>))
    ELSE Parsed(pos, <<>>)

\* ASTOrCondition: @@ ('AND' @@)*
parseASTOrCondition(toks, pos) ==
    UNION {{[pos |-> t.pos, ast |-> [And |-> <<a.ast>> \o t.ast]] : t \in parseAndTail(toks, a.pos)} :
              a \in parseASTCondition(toks, pos)}

\* ('OR' @@)* of ASTExpression.Or
RECURSIVE parseOrTail(_, _)
parseOrTail(toks, pos) ==
    IF tokIs(toks, pos, KwOR)
    THEN OrElse(UNION {Cons(a, parseOrTail(toks, a.pos)) : a \in parseASTOrCondition(toks, pos + 1)},
                Parsed(pos, <<>>))
    ELSE Parsed(pos, <<>>)

\* ASTExpression: @@ ('OR' @@)*
parseASTExpression(toks, pos) ==
    UNION {{[pos |-> t.pos, ast |-> [Or |-> <<a.ast>> \o t.ast]] : t \in parseOrTail(toks, a.pos)} :
              a \in parseASTOrCondition(toks, pos)}

\* ASTSelectField: @@ ('AS' @Ident)?
parseASTSelectField(toks, pos) ==
    {IF tokIs(toks, e.pos, KwAS) /\ tokType(toks, e.pos + 1, "Ident")
     THEN [pos |-> e.pos + 2, ast |-> [Expression |-> e.ast, Alias |-> toks[e.pos + 1].value]]
     ELSE [pos |-> e.pos, ast |-> [Expression |-> e.ast, Alias |-> <<>>]] :
        e \in parseASTExpression(toks, pos)}

\* (',' @@)* of ASTSelect.SelectFields
RECURSIVE parseFieldsTail(_, _)
parseFieldsTail(toks, pos) ==
    IF tokIs(toks, pos, <<",">>)
    THEN OrElse(UNION {Cons(a, parseFieldsTail(toks, a.pos)) : a \in parseASTSelectField(toks, pos + 1)},
                Parsed(pos, <<>>))
    ELSE Parsed(pos, <<>>)

\* ASTFromClause: (@Ident | @String) | '(' SubQuery ')'
parseASTFromClause(toks, pos) ==
    IF tokType(toks, pos, "Ident") \/ tokType(toks, pos, "String")
    THEN Parsed(pos + 1, [kind |-> "TableName", TableName |-> toks[pos].value])
    ELSE parseSubQuery(toks, pos)

NoFrom == [kind |-> "nil"]

NoWhere == [nil |-> TRUE, Or |-> <<>>]

NoGroupBy == [nil |-> TRUE, Parts |-> <<>>]

\* ('FROM' @@)?
parseFromOpt(toks, pos) ==
    OrElse(IF tokIs(toks, pos, KwFROM) THEN parseASTFromClause(toks, pos + 1) ELSE Fail,
           Parsed(pos, NoFrom))

\* ('WHERE' @@)?
parseWhereOpt(toks, pos) ==
    OrElse(IF tokIs(toks, pos, KwWHERE)
           THEN {[pos |-> where.pos, ast |-> [nil |-> FALSE, Or |-> where.ast.Or]] :
                    where \in parseASTExpression(toks, pos + 1)}
           ELSE Fail,
           Parsed(pos, NoWhere))

\* ('GROUP' 'BY' @@)?
parseGroupByOpt(toks, pos) ==
    OrElse(IF tokIs(toks, pos, KwGROUP) /\ tokIs(toks, pos + 1, KwBY)
           THEN {[pos |-> group.pos, ast |-> [nil |-> FALSE, Parts |-> group.ast.Parts]] :
                    group \in parseASTValue(toks, pos + 2)}
           ELSE Fail,
           Parsed(pos, NoGroupBy))

\* the clauses that follow the select fields fs
parseClauses(toks, fs) ==
    UNION {UNION {{[pos |-> group.pos,
                    ast |-> [SelectFields |-> fs.ast, From |-> from.ast,
                             Where |-> where.ast, GroupBy |-> group.ast]] :
                      group \in parseGroupByOpt(toks, where.pos)} :
                     where \in parseWhereOpt(toks, from.pos)} :
              from \in parseFromOpt(toks, fs.pos)}

\* ASTSelect: 'SELECT' @@ (',' @@)* ('FROM' @@)? ('WHERE' @@)? ('GROUP' 'BY' @@)?
parseASTSelect(toks, pos) ==
    IF tokIs(toks, pos, KwSELECT)
    THEN UNION {parseClauses(toks, fs) :
                   fs \in UNION {Cons(a, parseFieldsTail(toks, a.pos)) :
                                    a \in parseASTSelectField(toks, pos + 1)}}
    ELSE Fail

\* sqlParser.ParseString: the whole input must be one ASTSelect; the set of
\* the trees it yields, empty when it fails
parseTokens(l) ==
    IF l.ok
    THEN {a.ast : a \in {b \in parseASTSelect(l.tokens, 1) : b.pos = Len(l.tokens) + 1}}
    ELSE {}

ParseString(input) == parseTokens(Lex(input))

(***************************************************************************)
(* Lowering of the AST to the query IR (package query)                     *)
(***************************************************************************)

\* ASTValue.String
ValueString(v) == Join(v.Parts, <<".">>)

\* ASTLiteral.String
LiteralString(l) ==
    CASE l.kind = "Number" -> IntStr(l.Number)
      [] l.kind = "StrVal" -> <<"'">> \o l.StrVal \o <<"'">>
      [] l.kind = "Bool" -> Sprintf(Bool(l.Bool))

\* ASTLiteral.ToValue
LiteralToValue(l) ==
    CASE l.kind = "Number" -> Num(l.Number)
      [] l.kind = "StrVal" -> Str(l.StrVal)
      [] l.kind = "Bool" -> Bool(l.Bool)

\* ASTOperand.String and ASTFunction.String
RECURSIVE OperandString(_)
OperandString(o) ==
    CASE o.kind = "Function" ->
            o.Function.Name \o <<"(">>
            \o Join([i \in 1..Len(o.Function.Args) |-> OperandString(o.Function.Args[i])], <<",">>)
            \o <<")">>
      [] o.kind = "Literal" -> LiteralString(o.Literal)
      [] o.kind = "Value" -> ValueString(o.Value)
      [] o.kind = "SubQuery" -> <<"(", "S", "U", "B", "Q", "U", "E", "R", "Y", ")">>

\* ASTOperand.ToValue
OperandToValue(o) ==
    CASE o.kind = "Literal" -> LiteralToValue(o.Literal)
      [] o.kind = "Value" -> Str(ValueString(o.Value))
      [] OTHER -> Str(OperandString(o))

\* ASTOperand.getSimplePath
getSimplePath(o) == IF o.kind = "Value" THEN ValueString(o.Value) ELSE <<>>

\* the left fold of ASTExpression.ToExpression and ASTOrCondition.ToExpression
RECURSIVE FoldExpr(_, _)
FoldExpr(es, kind) ==
    IF Len(es) = 1 THEN es[1]
    ELSE IF kind = "and" THEN AndExpression(FoldExpr(Take(es, Len(es) - 1), kind), es[Len(es)])
    ELSE OrExpression(FoldExpr(Take(es, Len(es) - 1), kind), es[Len(es)])

RECURSIVE ASTExpressionToExpression(_)
RECURSIVE ASTConditionToExpression(_)

\* variant: only the first operand of the AND chain is lowered
ASTOrConditionFirstOnly(o) ==
    IF Len(o.And) = 0 THEN NilExpr ELSE ASTConditionToExpression(o.And[1])

\* ASTOrCondition.ToExpression
ASTOrConditionToExpression(o) ==
    IF Len(o.And) = 0 THEN NilExpr
    ELSE FoldExpr([i \in 1..Len(o.And) |-> ASTConditionToExpression(o.And[i])], "and")

\* ASTExpression.ToExpression
ASTExpressionToExpression(e) ==
    IF Len(e.Or) = 0 THEN NilExpr
    ELSE FoldExpr([i \in 1..Len(e.Or) |-> ASTOrConditionToExpression(e.Or[i])], "or")

\* ASTCondition.ToExpression
ASTConditionToExpression(c) ==
    IF c.kind = "Grouped" THEN ASTExpressionToExpression(c.Grouped)
    ELSE Condition(NewFilter(OperandString(c.Simple.Operand),
                             IF c.Simple.hasOp THEN c.Simple.Op ELSE OpEq,
                             IF c.Simple.hasOp THEN OperandToValue(c.Simple.Value) ELSE Null))

\* query.Field
Field(path, alias, agg) == [Path |-> path, Alias |-> alias, Aggregate |-> agg]

\* fmtKey
fmtKey(agg, path) == agg \o <<"_">> \o ReplaceAll(path, ".", "_")

\* ASTSelectField.Info: (path, agg) of the first condition of the field
Info(f) ==
    LET cond == f.Expression.Or[1].And[1]
        op == cond.Simple.Operand
    IN IF cond.kind = "Grouped" THEN [path |-> <<>>, agg |-> <<>>]
       ELSE IF op.kind = "Function"
       THEN [path |-> IF Len(op.Function.Args) > 0 THEN getSimplePath(op.Function.Args[1]) ELSE <<>>,
             agg |-> op.Function.Name]
       ELSE IF op.kind = "Value" THEN [path |-> ValueString(op.Value), agg |-> <<>>]
       ELSE [path |-> <<>>, agg |-> <<>>]

\* a nil *SelectQuery
NilQuery == [nil |-> TRUE]

\* ASTSelect.ToSelectQuery
RECURSIVE ToSelectQuery(_)
ToSelectQuery(s) ==
    [nil |-> FALSE,
     Fields |-> [i \in 1..Len(s.SelectFields) |->
                    LET f == s.SelectFields[i]
                        info == Info(f)
                        alias == IF f.Alias # <<>> THEN f.Alias
                                 ELSE IF info.agg # <<>> THEN fmtKey(info.agg, info.path)
                                 ELSE info.path
                    IN Field(info.path, alias, info.agg)],
     FromTable |-> IF s.From.kind = "TableName" THEN s.From.TableName ELSE <<>>,
     FromQuery |-> IF s.From.kind = "SubQuery" THEN ToSelectQuery(s.From.SubQuery) ELSE NilQuery,
     Filter |-> IF s.Where.nil THEN NilExpr ELSE ASTExpressionToExpression(s.Where),
     GroupBy |-> IF s.GroupBy.nil THEN <<>> ELSE ValueString(s.GroupBy)]

\* the query of the tree, an error when there is none
queryOf(asts) ==
    IF asts = {} THEN [ok |-> FALSE, query |-> NilQuery]
    ELSE [ok |-> TRUE, query |-> ToSelectQuery(CHOOSE ast \in asts : TRUE)]

\* query.ParseQuery
ParseQuery(input0) ==
    IF TrimSpace(input0) = <<>> THEN [ok |-> FALSE, query |-> NilQuery]
    ELSE queryOf(ParseString(TrimSpace(input0)))

(***************************************************************************)
(* Legacy string-splitting expression builder (package query)              *)
(***************************************************************************)

\* the segments of s that strings.Split finds in the upper-cased copy, cut
\* out of s itself and trimmed
RECURSIVE splitSegments(_, _, _, _)
splitSegments(s, parts, lastPos, opLen) ==
    IF parts = <<>> THEN <<>>
    ELSE <<TrimSpace(SubSeq(s, lastPos + 1, lastPos + Len(parts[1])))>>
         \o splitSegments(s, Tail(parts), lastPos + Len(parts[1]) + opLen, opLen)

\* splitByOperator
splitByOperator(s, op) ==
    With(Split(ToUpper(s), ToUpper(op)), LAMBDA parts :
        IF Len(parts) = 1 THEN <<s>> ELSE splitSegments(s, parts, 0, Len(op)))

SepOR == <<" ", "O", "R", " ">>

SepAND == <<" ", "A", "N", "D", " ">>

\* ParseExpression
RECURSIVE ParseExpression(_)
\* the leaf of ParseExpression: the Condition of a filter expression
leafCondition(filterExpr) ==
    IF filterExpr.nil
    THEN Condition([Field |-> <<"e", "r", "r", "o", "r">>, Operator |-> OpEq,
                    Value |-> Str(<<"i", "n", "v", "a", "l", "i", "d">>)])
    ELSE Condition(NewFilter(filterExpr.Field, filterExpr.Operator, Str(filterExpr.Value)))

ParseExpression(input0) ==
    With(TrimSpace(input0), LAMBDA text :
        With(splitByOperator(text, SepOR), LAMBDA orParts :
            IF Len(orParts) > 1
            THEN FoldExpr([i \in 1..Len(orParts) |-> ParseExpression(orParts[i])], "or")
            ELSE With(splitByOperator(text, SepAND), LAMBDA andParts :
                    IF Len(andParts) > 1
                    THEN FoldExpr([i \in 1..Len(andParts) |-> ParseExpression(andParts[i])], "and")
                    ELSE IF HasPrefix(text, <<"(">>) /\ HasSuffix(text, <<")">>)
                    THEN ParseExpression(SubSeq(text, 2, Len(text) - 1))
                    ELSE leafCondition(ParseFilterExpression(text)))))

(***************************************************************************)
(* Planner (package planner) and plan nodes (package plan)                 *)
(***************************************************************************)

ScanNode(name) == [kind |-> "Scan", TableName |-> name]

FilterNode(in, e) == [kind |-> "Filter", Input |-> in, Expression |-> e]

ProjectNode(in, fields) == [kind |-> "Project", Input |-> in, Fields |-> fields]

AggregateNode(in, groupBy, fields) ==
    [kind |-> "Aggregate", Input |-> in, GroupByField |-> groupBy, Fields |-> fields]

DefaultTableName == <<"d", "e", "f", "a", "u", "l", "t">>

\* CreatePlan: every scan is bound to rootTable, so the plan does not carry
\* the table handle; no branch returns an error
RECURSIVE CreatePlan(_)
\* variant: the WHERE filter is placed above the terminal node
CreatePlanFilterOnTop(q) ==
    LET inputNode == IF ~q.FromQuery.nil THEN CreatePlan(q.FromQuery)
                     ELSE IF q.FromTable # <<>> THEN ScanNode(q.FromTable)
                     ELSE ScanNode(DefaultTableName)
        hasAggregation ==
            \/ q.GroupBy # <<>>
            \/ \E i \in 1..Len(q.Fields) : q.Fields[i].Aggregate # <<>>
        terminal == IF hasAggregation THEN AggregateNode(inputNode, q.GroupBy, q.Fields)
                    ELSE IF Len(q.Fields) > 0 THEN ProjectNode(inputNode, q.Fields)
                    ELSE inputNode
    IN IF q.Filter.kind # "nil" THEN FilterNode(terminal, q.Filter) ELSE terminal

CreatePlan(q) ==
    LET inputNode == IF ~q.FromQuery.nil THEN CreatePlan(q.FromQuery)
                     ELSE IF q.FromTable # <<>> THEN ScanNode(q.FromTable)
                     ELSE ScanNode(DefaultTableName)
        filtered == IF q.Filter.kind # "nil" THEN FilterNode(inputNode, q.Filter) ELSE inputNode
        hasAggregation ==
            \/ q.GroupBy # <<>>
            \/ \E i \in 1..Len(q.Fields) : q.Fields[i].Aggregate # <<>>
    IN IF hasAggregation THEN AggregateNode(filtered, q.GroupBy, q.Fields)
       ELSE IF Len(q.Fields) > 0 THEN ProjectNode(filtered, q.Fields)
       ELSE filtered

(***************************************************************************)
(* Rows and the external table (package database)                          *)
(*                                                                         *)
(* A table is [rows, failAfter, openFails]: Iterate fails when openFails;  *)
(* an iterator yields rows in order and reports an error instead of row    *)
(* failAfter + 1 (NoFail: never).  A Row is its underlying data.  The      *)
(* world w records, per iterator the table handed out, how often it was    *)
(* closed and how often its Next was called, and how often Iterate was     *)
(* called.                                                                 *)
(***************************************************************************)

NoFail == -1

NilRow == [t |-> "nil", v |-> 0]

NilIter == [kind |-> "nil"]

\* OrderedMap.ToMap: a later pair overrides an earlier one with the same key
ToMap(om) ==
    [k \in {om[i].Key : i \in 1..Len(om)} |->
        LET last == CHOOSE i \in 1..Len(om) :
                        om[i].Key = k /\ \A j \in 1..Len(om) : om[j].Key = k => j <= i
        IN om[last].Val]

Wrapped == <<"w", "r", "a", "p", "p", "e", "d">>

\* variant: an OrderedMap row is not converted, it is wrapped like a scalar
GetPlainMapOnly(row, field) ==
    CASE row.t = "map" -> Extract(row.v, field)
      [] OTHER -> Extract([k \in {Wrapped} |-> row], field)

\* JSONRow.Get / GetWithFilter
\* the record JSONRow.Get extracts from
recordOf(row) ==
    CASE row.t = "map" -> row.v
      [] row.t = "omap" -> ToMap(row.v)
      [] OTHER -> [k \in {Wrapped} |-> row]

Get(row, field) == Extract(recordOf(row), field)

\* the world before the table has handed out an iterator
NewWorld == [closes |-> <<>>, pulls |-> <<>>, opens |-> 0]

\* Table.Iterate
Iterate(tbl, w) ==
    IF tbl.openFails THEN [err |-> TRUE, it |-> NilIter, w |-> [w EXCEPT !.opens = @ + 1]]
    ELSE [err |-> FALSE,
          it |-> [kind |-> "scan", id |-> Len(w.closes) + 1, index |-> 0, err |-> FALSE],
          w |-> [w EXCEPT !.closes = Append(@, 0), !.pulls = Append(@, 0),
                          !.opens = @ + 1]]

\* one more call of Next on iterator id
pulled(w, id) == [w EXCEPT !.pulls[id] = @ + 1]

\* Next of the table's iterator: index counts the rows yielded so far
scanNext(it, tbl, w) ==
    IF tbl.failAfter = it.index
    THEN [ok |-> FALSE, it |-> [it EXCEPT !.err = TRUE], w |-> pulled(w, it.id)]
    ELSE IF it.index < Len(tbl.rows)
    THEN [ok |-> TRUE, it |-> [it EXCEPT !.index = @ + 1], w |-> pulled(w, it.id)]
    ELSE [ok |-> FALSE, it |-> it, w |-> pulled(w, it.id)]

(***************************************************************************)
(* Aggregators (package plan)                                              *)
(***************************************************************************)

FnMAX == <<"M", "A", "X">>
FnMIN == <<"M", "I", "N">>
FnAVG == <<"A", "V", "G">>
FnCOUNT == <<"C", "O", "U", "N", "T">>
FnSUM == <<"S", "U", "M">>

\* plan.toFloat64: numbers and numeric strings only
planToFloat64(x) ==
    CASE x.t = "num" -> [ok |-> TRUE, f |-> x.v]
      [] x.t = "str" -> ParseFloat(x.v)
      [] OTHER -> [ok |-> FALSE, f |-> 0]

\* plan.compareGreater
planCompareGreater(a, b) ==
    With2(planToFloat64(a), planToFloat64(b), LAMBDA af, bf :
        IF af.ok /\ bf.ok THEN af.f > bf.f ELSE StrLess(Sprintf(b), Sprintf(a)))

\* plan.compareLess
planCompareLess(a, b) ==
    With2(planToFloat64(a), planToFloat64(b), LAMBDA af, bf :
        IF af.ok /\ bf.ok THEN af.f < bf.f ELSE StrLess(Sprintf(a), Sprintf(b)))

NoAggregator == [fn |-> "none"]

\* createAggregator: an unknown name falls back to COUNT
createAggregator(funcName) ==
    With(ToUpper(funcName), LAMBDA u :
        CASE u = FnMAX -> [fn |-> "MAX", val |-> Null, set |-> FALSE]
          [] u = FnMIN -> [fn |-> "MIN", val |-> Null, set |-> FALSE]
          [] u = FnAVG -> [fn |-> "AVG", sum |-> 0, count |-> 0]
          [] u = FnSUM -> [fn |-> "SUM", sum |-> 0]
          [] OTHER -> [fn |-> "COUNT", count |-> 0])

\* fieldAggregator.Add; MAX, MIN, AVG and SUM feed the elements of a slice
\* one by one (recursively), COUNT adds the length of the slice
RECURSIVE Add(_, _)
RECURSIVE AddAll(_, _)
AddAll(a, items) == IF items = <<>> THEN a ELSE AddAll(Add(a, items[1]), Tail(items))

Add(a, x) ==
    IF a.fn = "COUNT"
    THEN IF x.t = "null" THEN a
         ELSE IF x.t = "arr" THEN [a EXCEPT !.count = @ + Len(x.v)]
         ELSE [a EXCEPT !.count = @ + 1]
    ELSE IF x.t = "null" THEN a
    ELSE IF x.t = "arr" THEN AddAll(a, x.v)
    ELSE CASE a.fn = "MAX" ->
                IF ~a.set THEN [a EXCEPT !.val = x, !.set = TRUE]
                ELSE IF planCompareGreater(x, a.val) THEN [a EXCEPT !.val = x] ELSE a
           [] a.fn = "MIN" ->
                IF ~a.set THEN [a EXCEPT !.val = x, !.set = TRUE]
                ELSE IF planCompareLess(x, a.val) THEN [a EXCEPT !.val = x] ELSE a
           [] a.fn = "AVG" ->
                With(planToFloat64(x), LAMBDA f :
                    IF f.ok THEN [a EXCEPT !.sum = @ + f.f, !.count = @ + 1] ELSE a)
           [] a.fn = "SUM" ->
                With(planToFloat64(x), LAMBDA f :
                    IF f.ok THEN [a EXCEPT !.sum = @ + f.f] ELSE a)

\* the quotient sum / count; a quotient that is not an integer is kept as
\* the pair of its operands
Frac(n, d) == [t |-> "frac", v |-> <<n, d>>]

\* fieldAggregator.Result
Result(a) ==
    CASE a.fn = "MAX" \/ a.fn = "MIN" -> a.val
      [] a.fn = "AVG" ->
            IF a.count = 0 THEN Num(0)
            ELSE IF a.sum % a.count = 0 THEN Num(a.sum \div a.count)
            ELSE Frac(a.sum, a.count)
      [] a.fn = "COUNT" -> Num(a.count)
      [] a.fn = "SUM" -> Num(a.sum)

\* newGroupState: one aggregator per aggregate field, by field position
newGroupState(fields) ==
    [i \in 1..Len(fields) |->
        IF fields[i].Aggregate # <<>> THEN createAggregator(fields[i].Aggregate)
        ELSE NoAggregator]

\* groupState.update
addExtracted(a, r) == IF r.ok THEN Add(a, r.val) ELSE a

update(aggs, row, fields) ==
    [i \in 1..Len(fields) |->
        IF fields[i].Aggregate # <<>> THEN addExtracted(aggs[i], Get(row, fields[i].Path))
        ELSE aggs[i]]

\* the output key of a field
keyOf(f) == IF f.Alias = <<>> THEN f.Path ELSE f.Alias

\* variant: every field without an aggregate function takes the group key
finalizeKeyEverywhere(aggs, fields, groupKey, groupByField) ==
    OMap([i \in 1..Len(fields) |->
            KeyVal(keyOf(fields[i]),
                   IF fields[i].Aggregate # <<>> THEN Result(aggs[i]) ELSE Str(groupKey))])

\* groupState.finalize
finalize(aggs, fields, groupKey, groupByField) ==
    OMap([i \in 1..Len(fields) |->
            KeyVal(keyOf(fields[i]),
                   IF fields[i].Aggregate # <<>> THEN Result(aggs[i])
                   ELSE IF fields[i].Path = groupByField THEN Str(groupKey)
                   ELSE Null)])

\* sort.Strings
RECURSIVE sortStrings(_)
sortStrings(ss) ==
    IF ss = <<>> THEN <<>>
    ELSE LET m == CHOOSE i \in 1..Len(ss) :
                    \A j \in 1..Len(ss) : ~StrLess(ss[j], ss[i]) /\ (ss[j] = ss[i] => i <= j)
         IN <<ss[m]>> \o sortStrings(SubSeq(ss, 1, m - 1) \o SubSeq(ss, m + 1, Len(ss)))

(***************************************************************************)
(* Plan nodes and their iterators (package plan).  Execute, Next and Close *)
(* return the callee's new state and the new world with their result.      *)
(***************************************************************************)

NilResults == [nil |-> TRUE, rows |-> <<>>]

\* Node.Execute of ScanNode, FilterNode, ProjectNode and AggregateNode
RECURSIVE NodeExecute(_, _, _)
NodeExecute(n, tbl, w) ==
    CASE n.kind = "Scan" -> Iterate(tbl, w)
      [] n.kind = "Filter" ->
            LET in == NodeExecute(n.Input, tbl, w)
            IN IF in.err THEN in
               ELSE [err |-> FALSE, w |-> in.w,
                     it |-> [kind |-> "filter", source |-> in.it, expression |-> n.Expression]]
      [] n.kind = "Project" ->
            LET in == NodeExecute(n.Input, tbl, w)
            IN IF in.err THEN in
               ELSE [err |-> FALSE, w |-> in.w,
                     it |-> [kind |-> "project", source |-> in.it, fields |-> n.Fields,
                             currentRow |-> NilRow, pendingRows |-> <<>>]]
      [] n.kind = "Aggregate" ->
            [err |-> FALSE, w |-> w,
             it |-> [kind |-> "aggregate", input |-> n.Input, groupByField |-> n.GroupByField,
                     fields |-> n.Fields, results |-> NilResults, index |-> 0]]

\* RowIterator.Row
RECURSIVE IterRow(_, _)
IterRow(it, tbl) ==
    CASE it.kind = "scan" -> Map(tbl.rows[it.index])
      [] it.kind = "filter" -> IterRow(it.source, tbl)
      [] it.kind = "project" -> it.currentRow
      [] it.kind = "aggregate" ->
            IF it.index >= 0 /\ it.index < Len(it.results.rows)
            THEN it.results.rows[it.index + 1] ELSE NilRow

\* variant: only the table's own iterator reports its error
IterErrorScanOnly(it) == it.kind = "scan" /\ it.err

\* RowIterator.Error: the aggregate iterator always reports nil
RECURSIVE IterError(_)
IterError(it) ==
    CASE it.kind = "scan" -> it.err
      [] it.kind = "filter" \/ it.kind = "project" -> IterError(it.source)
      [] it.kind = "aggregate" -> FALSE

RECURSIVE IterClose(_, _)

\* variant: Close of a projection does not reach its source
IterCloseNotThroughProject(it, w) ==
    CASE it.kind = "scan" -> [w EXCEPT !.closes[it.id] = @ + 1]
      [] it.kind = "filter" -> IterClose(it.source, w)
      [] OTHER -> w

\* RowIterator.Close: the aggregate iterator's Close does nothing
IterClose(it, w) ==
    CASE it.kind = "scan" -> [w EXCEPT !.closes[it.id] = @ + 1]
      [] it.kind = "filter" \/ it.kind = "project" -> IterClose(it.source, w)
      [] it.kind = "aggregate" -> w

\* variant: a failed extraction gives the empty string
fieldValuesEmptyOnError(srcRow, fields) ==
    [i \in 1..Len(fields) |->
        With(Get(srcRow, fields[i].Path), LAMBDA r :
            [key |-> keyOf(fields[i]), val |-> IF r.ok THEN r.val ELSE Str(<<>>)])]

\* projectIterator.Next, first pass: the key and the extracted value of
\* every field; a failed extraction gives nil
fieldValues(srcRow, fields) ==
    [i \in 1..Len(fields) |->
        With(Get(srcRow, fields[i].Path), LAMBDA r :
            [key |-> keyOf(fields[i]), val |-> IF r.ok THEN r.val ELSE Null])]

\* variant: the values that are not slices are written to the first row only
zipRowsScalarOnce(fVals, n) ==
    [i \in 1..n |->
        OMap([j \in 1..Len(fVals) |->
                KeyVal(fVals[j].key,
                       IF fVals[j].val.t = "arr" THEN fVals[j].val.v[i]
                       ELSE IF i = 1 THEN fVals[j].val ELSE Null)])]

\* projectIterator.Next, "Generate N rows": row i takes element i of every
\* slice and every other value as it is
zipRows(fVals, n) ==
    [i \in 1..n |->
        OMap([j \in 1..Len(fVals) |->
                KeyVal(fVals[j].key,
                       IF fVals[j].val.t = "arr" THEN fVals[j].val.v[i] ELSE fVals[j].val)])]

\* projectIterator.Next, "Fallback: Return as is"
fallbackRow(fVals) == OMap([j \in 1..Len(fVals) |-> KeyVal(fVals[j].key, fVals[j].val)])

\* variant: slices of different lengths are zipped up to the shortest
projectRowsShortest(srcRow, fields) ==
    With(fieldValues(srcRow, fields), LAMBDA fVals :
        LET arrays == {i \in 1..Len(fields) : fVals[i].val.t = "arr"}
            hasArrays == arrays # {}
            lens == {Len(fVals[i].val.v) : i \in arrays}
            shortest == IF hasArrays THEN CHOOSE n \in lens : \A m \in lens : n <= m ELSE -1
        IN IF hasArrays /\ shortest > 0
           THEN zipRows(fVals, shortest)
           ELSE <<fallbackRow(fVals)>>)

\* the rows projectIterator.Next derives from one source row
projectRows(srcRow, fields) ==
    With(fieldValues(srcRow, fields), LAMBDA fVals :
        LET arrays == {i \in 1..Len(fields) : fVals[i].val.t = "arr"}
            hasArrays == arrays # {}
            first == CHOOSE i \in arrays : \A j \in arrays : i <= j
            allArraysLength == IF hasArrays THEN Len(fVals[first].val.v) ELSE -1
            consistentArrays == \A i \in arrays : Len(fVals[i].val.v) = allArraysLength
        IN IF hasArrays /\ consistentArrays /\ allArraysLength > 0
           THEN zipRows(fVals, allArraysLength)
           ELSE <<fallbackRow(fVals)>>)

\* the record a filterIterator evaluates its expression on
isRecord(prim) == prim.t = "map" \/ prim.t = "omap"

asRecord(prim) == IF prim.t = "omap" THEN ToMap(prim.v) ELSE prim.v

NoGroups == [groups |-> <<>>, groupKeys |-> <<>>, hasData |-> FALSE]

NullKey == <<"n", "u", "l", "l">>

RECURSIVE IterNext(_, _, _)
RECURSIVE filterNext(_, _, _)
RECURSIVE aggregateLoop(_, _, _, _, _)

\* whether the filterIterator keeps the row: rows that are not records are
\* skipped
accepts(expression, primitive) ==
    isRecord(primitive) /\ Evaluate(expression, asRecord(primitive))

\* the body of the loop of filterIterator.Next, once the source has answered r
filterStep(it, tbl, r) ==
    IF ~r.ok THEN [ok |-> FALSE, it |-> [it EXCEPT !.source = r.it], w |-> r.w]
    ELSE IF accepts(it.expression, IterRow(r.it, tbl))
    THEN [ok |-> TRUE, it |-> [it EXCEPT !.source = r.it], w |-> r.w]
    ELSE filterNext([it EXCEPT !.source = r.it], tbl, r.w)

\* filterIterator.Next
filterNext(it, tbl, w) == filterStep(it, tbl, IterNext(it.source, tbl, w))

\* projectIterator.Next once the source has answered r
projectStep(it, tbl, r) ==
    IF r.ok
    THEN With(projectRows(IterRow(r.it, tbl), it.fields), LAMBDA rows :
            [ok |-> TRUE, w |-> r.w,
             it |-> [it EXCEPT !.source = r.it, !.currentRow = rows[1],
                               !.pendingRows = Tail(rows)]])
    ELSE [ok |-> FALSE, w |-> r.w, it |-> [it EXCEPT !.source = r.it]]

\* variant: every call pulls from the source, whatever is pending
projectNextAlwaysPulls(it, tbl, w) == projectStep(it, tbl, IterNext(it.source, tbl, w))

\* projectIterator.Next
projectNext(it, tbl, w) ==
    IF Len(it.pendingRows) > 0
    THEN [ok |-> TRUE, w |-> w,
          it |-> [it EXCEPT !.currentRow = it.pendingRows[1], !.pendingRows = Tail(@)]]
    ELSE projectStep(it, tbl, IterNext(it.source, tbl, w))

\* the group key of an extracted value: its %v form, "null" when missing
keyText(g) == IF g.ok THEN Sprintf(g.val) ELSE NullKey

groupKeyFor(agg, row) ==
    IF agg.groupByField # <<>> THEN keyText(Get(row, agg.groupByField)) ELSE <<>>

\* the row is added to the state of its group, which is created and its key
\* recorded when it is new
addToGroup(agg, st, row, groupKey) ==
    With(update(IF groupKey \in DOMAIN st.groups THEN st.groups[groupKey]
                ELSE newGroupState(agg.fields),
                row, agg.fields),
         LAMBDA updated :
            [groups |-> [k \in DOMAIN st.groups \cup {groupKey} |->
                            IF k = groupKey THEN updated ELSE st.groups[k]],
             groupKeys |-> IF groupKey \in DOMAIN st.groups THEN st.groupKeys
                           ELSE Append(st.groupKeys, groupKey),
             hasData |-> TRUE])

\* the body of the "for sourceIter.Next()" loop, once the source has answered r
aggregateStep(agg, tbl, st, r) ==
    IF ~r.ok THEN [it |-> r.it, w |-> r.w, st |-> st]
    ELSE aggregateLoop(agg, r.it, tbl, r.w,
                       addToGroup(agg, st, IterRow(r.it, tbl),
                                  groupKeyFor(agg, IterRow(r.it, tbl))))

\* the "for sourceIter.Next()" loop of aggregateIterator.init
aggregateLoop(agg, sourceIter, tbl, w, st) ==
    aggregateStep(agg, tbl, st, IterNext(sourceIter, tbl, w))

\* variant: without the rule for an input without rows
aggregateResultsNoEmptyRule(agg, st) ==
    With(sortStrings(st.groupKeys), LAMBDA keys :
        [i \in 1..Len(keys) |->
            finalize(st.groups[keys[i]], agg.fields, keys[i], agg.groupByField)])

\* the result rows aggregateIterator.init builds once its input is drained
aggregateResults(agg, st) ==
    IF /\ ~st.hasData /\ agg.groupByField = <<>> /\ Len(agg.fields) > 0
       /\ \E i \in 1..Len(agg.fields) : agg.fields[i].Aggregate # <<>>
    THEN <<finalize(newGroupState(agg.fields), agg.fields, <<>>, <<>>)>>
    ELSE With(sortStrings(st.groupKeys), LAMBDA keys :
            [i \in 1..Len(keys) |->
                finalize(st.groups[keys[i]], agg.fields, keys[i], agg.groupByField)])

\* variant: the source iterator is left open
aggregateFinishNoClose(it, d) ==
    IF IterError(d.it) THEN [err |-> TRUE, it |-> it, w |-> d.w]
    ELSE [err |-> FALSE, w |-> d.w,
          it |-> [it EXCEPT !.results = [nil |-> FALSE, rows |-> aggregateResults(it, d.st)],
                            !.index = -1]]

\* the end of aggregateIterator.init: the source is closed (deferred) and
\* the results are kept unless the source failed
aggregateFinish(it, d) ==
    With(IterClose(d.it, d.w), LAMBDA closed :
        IF IterError(d.it) THEN [err |-> TRUE, it |-> it, w |-> closed]
        ELSE [err |-> FALSE, w |-> closed,
              it |-> [it EXCEPT !.results = [nil |-> FALSE, rows |-> aggregateResults(it, d.st)],
                                !.index = -1]])

\* aggregateIterator.init once the input node has been executed
aggregateDrain(it, tbl, src) ==
    IF src.err THEN [err |-> TRUE, it |-> it, w |-> src.w]
    ELSE aggregateFinish(it, aggregateLoop(it, src.it, tbl, src.w, NoGroups))

\* aggregateIterator.init
aggregateInit(it, tbl, w) == aggregateDrain(it, tbl, NodeExecute(it.input, tbl, w))

\* aggregateIterator.Next
aggregateNext(it, tbl, w) ==
    With(IF it.results.nil THEN aggregateInit(it, tbl, w)
         ELSE [err |-> FALSE, it |-> it, w |-> w],
         LAMBDA i :
            IF i.err THEN [ok |-> FALSE, it |-> i.it, w |-> i.w]
            ELSE [ok |-> i.it.index + 1 < Len(i.it.results.rows), w |-> i.w,
                  it |-> [i.it EXCEPT !.index = @ + 1]])

\* RowIterator.Next
IterNext(it, tbl, w) ==
    CASE it.kind = "scan" -> scanNext(it, tbl, w)
      [] it.kind = "filter" -> filterNext(it, tbl, w)
      [] it.kind = "project" -> projectNext(it, tbl, w)
      [] it.kind = "aggregate" -> aggregateNext(it, tbl, w)

(***************************************************************************)
(* Inputs: query texts and tables                                          *)
(***************************************************************************)

\* the largest number of rows of a table
MaxRows == 3

\* field names
KA == <<"a">>
KB == <<"b">>
KK == <<"k">>
KXS == <<"x", "s">>
KYS == <<"y", "s">>

\* a record from a sequence of <<key, value>> pairs
Rec(pairs) ==
    [k \in {pairs[i][1] : i \in 1..Len(pairs)} |->
        pairs[CHOOSE i \in 1..Len(pairs) : pairs[i][1] = k][2]]

\* SELECT *
QStar == <<"S", "E", "L", "E", "C", "T", " ", "*">>

\* SELECT a
QField == <<"S", "E", "L", "E", "C", "T", " ", "a">>

\* SELECT x FROM (SELECT a AS x FROM T)
QNested1 == <<"S", "E", "L", "E", "C", "T", " ", "x", " ", "F", "R", "O", "M", " ", "(", "S", "E", "L", "E", "C", "T", " ", "a", " ", "A", "S", " ", "x", " ", "F", "R", "O", "M", " ", "T", ")">>

\* SELECT y FROM (SELECT x AS y FROM (SELECT a AS x FROM T))
QNested2 == <<"S", "E", "L", "E", "C", "T", " ", "y", " ", "F", "R", "O", "M", " ", "(", "S", "E", "L", "E", "C", "T", " ", "x", " ", "A", "S", " ", "y", " ", "F", "R", "O", "M", " ", "(", "S", "E", "L", "E", "C", "T", " ", "a", " ", "A", "S", " ", "x", " ", "F", "R", "O", "M", " ", "T", ")", ")">>

\* SELECT x FROM (SELECT a AS x FROM T WHERE b > 15)
QInnerWhere == <<"S", "E", "L", "E", "C", "T", " ", "x", " ", "F", "R", "O", "M", " ", "(", "S", "E", "L", "E", "C", "T", " ", "a", " ", "A", "S", " ", "x", " ", "F", "R", "O", "M", " ", "T", " ", "W", "H", "E", "R", "E", " ", "b", " ", ">", " ", "1", "5", ")">>

\* SELECT x FROM (SELECT a AS x FROM T) WHERE x > 1
QOuterWhere == <<"S", "E", "L", "E", "C", "T", " ", "x", " ", "F", "R", "O", "M", " ", "(", "S", "E", "L", "E", "C", "T", " ", "a", " ", "A", "S", " ", "x", " ", "F", "R", "O", "M", " ", "T", ")", " ", "W", "H", "E", "R", "E", " ", "x", " ", ">", " ", "1">>

\* SELECT xs, ys
QZip == <<"S", "E", "L", "E", "C", "T", " ", "x", "s", ",", " ", "y", "s">>

\* SELECT a, xs AS v
QZipScalar == <<"S", "E", "L", "E", "C", "T", " ", "a", ",", " ", "x", "s", " ", "A", "S", " ", "v">>

\* SELECT a, z, ys
QMissing == <<"S", "E", "L", "E", "C", "T", " ", "a", ",", " ", "z", ",", " ", "y", "s">>

\* SELECT a, b WHERE b >= 10 AND a != 2
QWhere == <<"S", "E", "L", "E", "C", "T", " ", "a", ",", " ", "b", " ", "W", "H", "E", "R", "E", " ", "b", " ", ">", "=", " ", "1", "0", " ", "A", "N", "D", " ", "a", " ", "!", "=", " ", "2">>

\* SELECT a FROM
QBad == <<"S", "E", "L", "E", "C", "T", " ", "a", " ", "F", "R", "O", "M">>

\* SELECT COUNT(a)
QCount == <<"S", "E", "L", "E", "C", "T", " ", "C", "O", "U", "N", "T", "(", "a", ")">>

\* SELECT COUNT(a), SUM(a) WHERE a > 100
QCountWhere == <<"S", "E", "L", "E", "C", "T", " ", "C", "O", "U", "N", "T", "(", "a", ")", ",", " ", "S", "U", "M", "(", "a", ")", " ", "W", "H", "E", "R", "E", " ", "a", " ", ">", " ", "1", "0", "0">>

\* SELECT k, SUM(a) GROUP BY k
QGroupSum == <<"S", "E", "L", "E", "C", "T", " ", "k", ",", " ", "S", "U", "M", "(", "a", ")", " ", "G", "R", "O", "U", "P", " ", "B", "Y", " ", "k">>

\* SELECT k, MAX(a) GROUP BY k
QGroupMax == <<"S", "E", "L", "E", "C", "T", " ", "k", ",", " ", "M", "A", "X", "(", "a", ")", " ", "G", "R", "O", "U", "P", " ", "B", "Y", " ", "k">>

\* SELECT k GROUP BY k
QGroupOnly == <<"S", "E", "L", "E", "C", "T", " ", "k", " ", "G", "R", "O", "U", "P", " ", "B", "Y", " ", "k">>

\* SELECT k, COUNT(a) WHERE a > 100 GROUP BY k
QGroupWhere == <<"S", "E", "L", "E", "C", "T", " ", "k", ",", " ", "C", "O", "U", "N", "T", "(", "a", ")", " ", "W", "H", "E", "R", "E", " ", "a", " ", ">", " ", "1", "0", "0", " ", "G", "R", "O", "U", "P", " ", "B", "Y", " ", "k">>

\* SELECT a, k, COUNT(a) AS n GROUP BY k
QGroupPlain == <<"S", "E", "L", "E", "C", "T", " ", "a", ",", " ", "k", ",", " ", "C", "O", "U", "N", "T", "(", "a", ")", " ", "A", "S", " ", "n", " ", "G", "R", "O", "U", "P", " ", "B", "Y", " ", "k">>

\* SELECT k, COUNT(a)
QPlainCount == <<"S", "E", "L", "E", "C", "T", " ", "k", ",", " ", "C", "O", "U", "N", "T", "(", "a", ")">>

\* SELECT MIN(a), AVG(a) AS m
QMinAvg == <<"S", "E", "L", "E", "C", "T", " ", "M", "I", "N", "(", "a", ")", ",", " ", "A", "V", "G", "(", "a", ")", " ", "A", "S", " ", "m">>

\* records with scalar and sequence-valued fields, for scans, filters,
\* projections and nested queries
ProjectionRows ==
    { Rec(<< <<KA, Num(1)>>, <<KB, Num(10)>>,
              <<KXS, Arr(<<Num(1), Num(2)>>)>>, <<KYS, Arr(<<Num(10), Num(20)>>)>> >>),
      Rec(<< <<KA, Num(2)>>, <<KB, Num(20)>>,
              <<KXS, Arr(<<Num(1), Num(2)>>)>>, <<KYS, Arr(<<Num(10), Num(20), Num(30)>>)>> >>),
      Rec(<< <<KA, Num(3)>>, <<KXS, Arr(<<>>)>>, <<KYS, Arr(<<Num(5)>>)>> >>),
      Rec(<< <<KA, Str(<<"x">>)>>, <<KB, Num(2)>>, <<KYS, Arr(<<Num(7), Num(8)>>)>> >>) }

\* records with a group field k and an aggregated field a
AggregationRows ==
    { Rec(<< <<KK, Str(<<"u">>)>>, <<KA, Num(10)>> >>),
      Rec(<< <<KK, Str(<<"u">>)>>, <<KA, Num(9)>> >>),
      Rec(<< <<KK, Str(<<"u">>)>>, <<KA, Str(<<"1", "a">>)>> >>),
      Rec(<< <<KK, Str(<<"t">>)>>, <<KA, Num(200)>> >>),
      Rec(<< <<KA, Arr(<<Num(1), Num(2)>>)>> >>) }

\* the records of the nested-query example and two with a second field
NestedRows ==
    { Rec(<< <<KA, Num(1)>> >>),
      Rec(<< <<KA, Num(2)>> >>),
      Rec(<< <<KA, Num(3)>>, <<KB, Num(20)>> >>),
      Rec(<< <<KA, Str(<<"x">>)>>, <<KB, Num(10)>> >>) }

ProjectionQueries == {QStar, QField, QZip, QZipScalar, QMissing, QWhere, QBad}

NestedQueries == {QNested1, QNested2, QInnerWhere, QOuterWhere}

AggregationQueries ==
    {QCount, QCountWhere, QGroupSum, QGroupMax, QGroupOnly, QGroupWhere, QMinAvg,
     QGroupPlain, QPlainCount}

RECURSIVE SeqsUpTo(_, _)
SeqsUpTo(S, n) ==
    IF n = 0 THEN {<<>>}
    ELSE LET shorter == SeqsUpTo(S, n - 1)
         IN shorter \cup {Append(s, x) : s \in {t \in shorter : Len(t) = n - 1}, x \in S}

\* a table that never fails
GoodTable(rows) == [rows |-> rows, failAfter |-> NoFail, openFails |-> FALSE]

\* SELECT a FROM zz
QFromOther == <<"S", "E", "L", "E", "C", "T", " ", "a", " ", "F", "R", "O", "M", " ", "z", "z">>

\* SELECT MEDIAN(a)
QUnknownFn == <<"S", "E", "L", "E", "C", "T", " ", "M", "E", "D", "I", "A", "N", "(", "a", ")">>

\* SELECT COUNT(a.b)
QCountPath == <<"S", "E", "L", "E", "C", "T", " ", "C", "O", "U", "N", "T", "(", "a", ".", "b", ")">>

\* SELECT count(a.b), Sum(a)
QLowerCount == <<"S", "E", "L", "E", "C", "T", " ", "c", "o", "u", "n", "t", "(", "a", ".", "b", ")", ",", " ", "S", "u", "m", "(", "a", ")">>

\* SELECT COUNT(x) FROM (SELECT a AS x FROM T)
QCountNested == <<"S", "E", "L", "E", "C", "T", " ", "C", "O", "U", "N", "T", "(", "x", ")", " ", "F", "R", "O", "M", " ", "(", "S", "E", "L", "E", "C", "T", " ", "a", " ", "A", "S", " ", "x", " ", "F", "R", "O", "M", " ", "T", ")">>

\* SELECT x FROM (SELECT COUNT(a) AS x FROM T) WHERE x > 0
QOverCount == <<"S", "E", "L", "E", "C", "T", " ", "x", " ", "F", "R", "O", "M", " ", "(", "S", "E", "L", "E", "C", "T", " ", "C", "O", "U", "N", "T", "(", "a", ")", " ", "A", "S", " ", "x", " ", "F", "R", "O", "M", " ", "T", ")", " ", "W", "H", "E", "R", "E", " ", "x", " ", ">", " ", "0">>

\* SELECT a WHERE b != 5
QNeMissing == <<"S", "E", "L", "E", "C", "T", " ", "a", " ", "W", "H", "E", "R", "E", " ", "b", " ", "!", "=", " ", "5">>

\* SELECT a WHERE b < 50
QLtMissing == <<"S", "E", "L", "E", "C", "T", " ", "a", " ", "W", "H", "E", "R", "E", " ", "b", " ", "<", " ", "5", "0">>

\* SELECT a WHERE a.b != 5
QNeScalar == <<"S", "E", "L", "E", "C", "T", " ", "a", " ", "W", "H", "E", "R", "E", " ", "a", ".", "b", " ", "!", "=", " ", "5">>

\* records for the runs over failing tables
FaultRows ==
    { Rec(<< <<KK, Str(<<"u">>)>>, <<KA, Num(1)>> >>),
      Rec(<< <<KK, Str(<<"t">>)>>, <<KA, Num(2)>>, <<KB, Num(10)>>,
              <<KXS, Arr(<<Num(1), Num(2)>>)>>, <<KYS, Arr(<<Num(10), Num(20)>>)>> >>) }

\* statements whose WHERE field is missing from some rows
MissingFieldQueries == {QNeMissing, QLtMissing, QNeScalar}

\* statements planned without an Aggregate node
StreamingQueries ==
    {QStar, QField, QWhere, QZip, QOuterWhere, QFromOther} \cup MissingFieldQueries

\* statements planned with an Aggregate node
BlockingQueries ==
    {QCount, QGroupSum, QCountNested, QOverCount, QUnknownFn, QCountPath, QLowerCount}

\* the tables over rows: one that works, one that cannot be opened, and one
\* for each position at which the iterator can fail
TablesOver(rows) ==
    {GoodTable(rows), [rows |-> rows, failAfter |-> NoFail, openFails |-> TRUE]}
        \cup {[rows |-> rows, failAfter |-> k, openFails |-> FALSE] : k \in 0..Len(rows)}

FaultyTables == UNION {TablesOver(rows) : rows \in SeqsUpTo(FaultRows, MaxRows)}

\* SELECT k, COUNT(a) AS n GROUP BY k
QGroupCount == <<"S", "E", "L", "E", "C", "T", " ", "k", ",", " ", "C", "O", "U", "N", "T", "(", "a", ")", " ", "A", "S", " ", "n", " ", "G", "R", "O", "U", "P", " ", "B", "Y", " ", "k">>

\* SELECT MAX(a), MIN(a)
QMaxMin == <<"S", "E", "L", "E", "C", "T", " ", "M", "A", "X", "(", "a", ")", ",", " ", "M", "I", "N", "(", "a", ")">>

\* SELECT MAX(a) WHERE a > 5
QMaxWhere == <<"S", "E", "L", "E", "C", "T", " ", "M", "A", "X", "(", "a", ")", " ", "W", "H", "E", "R", "E", " ", "a", " ", ">", " ", "5">>

\* records whose group field k is a number, the same numeral as a string,
\* missing, or the string "null", and whose aggregated field a is a number,
\* a numeric string, a non-numeric string, null, or a sequence with a null
MixedRows ==
    { Rec(<< <<KK, Num(1)>>, <<KA, Num(10)>> >>),
      Rec(<< <<KK, Str(<<"1">>)>>, <<KA, Str(<<"9">>)>> >>),
      Rec(<< <<KA, Str(<<"1", "a">>)>> >>),
      Rec(<< <<KK, Str(NullKey)>>, <<KA, Null>> >>),
      Rec(<< <<KK, Num(1)>>, <<KA, Arr(<<Num(1), Null>>)>> >>) }

GroupingQueries == {QCount, QGroupMax, QGroupCount, QMaxMin, QMaxWhere}

\* the most calls of Next made after Next has returned false
MaxCalls == 2

\* the deepest nesting of a field value the conditions are evaluated on
MaxDepth == 2

KC == <<"c">>
KM == <<"m">>
KTags == <<"t", "a", "g", "s">>

\* the largest number of elements of a sequence-valued field a path runs over
MaxItems == 3

KTa == <<"t", "a">>
KTb == <<"t", "b">>

\* a path segment that filters the keys of a mapping: the mapping is the
\* record itself (key empty) or the record's field key; wild is * or %
KeyShapes ==
    [key : {<<>>, KM},
     wild : {<<"*">>, <<"%">>},
     pred : {[op |-> OpTilde, lit |-> <<"t">>], [op |-> OpEq, lit |-> KTa],
             [op |-> OpNe, lit |-> KTa], [op |-> OpGe, lit |-> KTb],
             [op |-> OpLt, lit |-> KTb], [op |-> OpEq, lit |-> <<"z", "z">>]},
     rest : {<<>>, KA}]

\* key.wild op lit.rest, without the parts that are empty
KeyPathText(sh) ==
    (IF sh.key = <<>> THEN <<>> ELSE sh.key \o <<".">>)
        \o sh.wild \o sh.pred.op \o sh.pred.lit
        \o (IF sh.rest = <<>> THEN <<>> ELSE <<".">> \o sh.rest)

\* the mappings the key predicates run over: any of the keys ta, tb, c,
\* each bound to a number or to a mapping with the field a
KeyedMappings ==
    UNION {[K -> {Num(1), Map([k \in {KA} |-> Num(2)])}] : K \in SUBSET {KTa, KTb, KC}}

\* the records a shape is run on
KeyedRecordsFor(sh) ==
    IF sh.key = <<>> THEN KeyedMappings ELSE {[k \in {sh.key} |-> Map(m)] : m \in KeyedMappings}

\* a path that filters the elements of the sequence xs by their field k:
\* xs.wild.k=lit.rest
SiblingShapes ==
    [wild : {<<"*">>, <<"%">>},
     lit : {<<"u">>, <<"1">>},
     quoted : BOOLEAN,
     rest : {<<>>, KA}]

SiblingPathText(sh) ==
    KXS \o <<".">> \o sh.wild \o <<".">> \o KK \o OpEq
        \o (IF sh.quoted THEN <<"'">> \o sh.lit \o <<"'">> ELSE sh.lit)
        \o (IF sh.rest = <<>> THEN <<>> ELSE <<".">> \o sh.rest)

\* the elements of xs: with and without the fields k and a
SiblingElements ==
    { Map(Rec(<< <<KK, Str(<<"u">>)>>, <<KA, Num(1)>> >>)),
      Map(Rec(<< <<KK, Str(<<"t">>)>>, <<KA, Num(2)>> >>)),
      Map(Rec(<< <<KA, Num(3)>> >>)),
      Map(Rec(<< <<KK, Str(<<"u">>)>>, <<KA, Num(4)>> >>)),
      Map(Rec(<< <<KK, Str(<<"u">>)>>, <<KB, Num(10)>> >>)),
      Map(Rec(<< <<KK, Num(1)>>, <<KA, Map(Rec(<< <<KK, Str(<<"u">>)>> >>))>> >>)) }

SiblingRecords == {Rec(<< <<KXS, Arr(items)>> >>) : items \in SeqsUpTo(SiblingElements, MaxItems)}

\* SELECT * WHERE
SelectStarWhere == <<"S", "E", "L", "E", "C", "T", " ", "*", " ", "W", "H", "E", "R", "E", " ">>

\* a=1 OR b=2 AND c=3
TOrAnd == <<"a", "=", "1", " ", "O", "R", " ", "b", "=", "2", " ", "A", "N", "D", " ", "c", "=", "3">>

\* a=1 AND b=2 OR c=3
TAndOr == <<"a", "=", "1", " ", "A", "N", "D", " ", "b", "=", "2", " ", "O", "R", " ", "c", "=", "3">>

\* (a=1 OR b=2) AND c=3
TGroupOrAnd == <<"(", "a", "=", "1", " ", "O", "R", " ", "b", "=", "2", ")", " ", "A", "N", "D", " ", "c", "=", "3">>

\* a=1 OR (b=2 AND c=3)
TOrGroupAnd == <<"a", "=", "1", " ", "O", "R", " ", "(", "b", "=", "2", " ", "A", "N", "D", " ", "c", "=", "3", ")">>

\* a=1 AND (b=2 OR c=3)
TAndGroupOr == <<"a", "=", "1", " ", "A", "N", "D", " ", "(", "b", "=", "2", " ", "O", "R", " ", "c", "=", "3", ")">>

\* ((a=1 OR b=2) AND c=3) OR a=1
TNested == <<"(", "(", "a", "=", "1", " ", "O", "R", " ", "b", "=", "2", ")", " ", "A", "N", "D", " ", "c", "=", "3", ")", " ", "O", "R", " ", "a", "=", "1">>

\* ((a=1))
TDoubleParen == <<"(", "(", "a", "=", "1", ")", ")">>

\* tags = 'x'
TEqX == <<"t", "a", "g", "s", " ", "=", " ", "'", "x", "'">>

\* tags != 'x'
TNeX == <<"t", "a", "g", "s", " ", "!", "=", " ", "'", "x", "'">>

\* tags > 1
TGt1 == <<"t", "a", "g", "s", " ", ">", " ", "1">>

\* tags CONTAINS 'x'
TContainsX == <<"t", "a", "g", "s", " ", "C", "O", "N", "T", "A", "I", "N", "S", " ", "'", "x", "'">>

\* tags ~= 'x'
TTildeX == <<"t", "a", "g", "s", " ", "~", "=", " ", "'", "x", "'">>

PlainTexts == {TOrAnd, TAndOr}

ContainsTexts == {TContainsX, TTildeX}

GroupedTexts == {TGroupOrAnd, TOrGroupAnd, TAndGroupOr, TNested, TDoubleParen}

CollectionTexts == {TEqX, TNeX, TGt1}

\* every truth assignment of a=1, b=2, c=3
BooleanRecords ==
    { Rec(<< <<KA, Num(x)>>, <<KB, Num(y)>>, <<KC, Num(z)>> >>) :
        x \in {1, 0}, y \in {2, 0}, z \in {3, 0} }

ScalarValues == {Str(<<"x">>), Str(<<"y">>), Num(2)}

\* scalars, and sequences and mappings of values nested up to depth d
RECURSIVE NestedValues(_)
NestedValues(d) ==
    IF d = 0 THEN ScalarValues
    ELSE LET inner == NestedValues(d - 1)
         IN ScalarValues
            \cup {Arr(<<>>)}
            \cup {Arr(<<v>>) : v \in inner}
            \cup {Arr(<<w, v>>) : w \in ScalarValues, v \in inner}
            \cup {Map([k \in {KM} |-> v]) : v \in inner}

CollectionRecords == {Rec(<< <<KTags, v>> >>) : v \in NestedValues(MaxDepth)}

\* the records whose field is a scalar or a sequence of scalars
FlatRecords ==
    {r \in CollectionRecords :
        \/ r[KTags] \in ScalarValues
        \/ r[KTags].t = "arr" /\ \A i \in 1..Len(r[KTags].v) : r[KTags].v[i] \in ScalarValues}

(***************************************************************************)
(* The programs.  The query pipeline: ParseQuery, CreatePlan and           *)
(* Executor.Execute.  The condition evaluators: a condition text is built  *)
(* into an expression tree by ParseExpression and by the statement grammar *)
(* (as the WHERE clause of a statement), and each tree is evaluated on a   *)
(* record.                                                                 *)
(***************************************************************************)

VARIABLES
    pc,           \* "idle", "start", "parsed", "planned", "running", "done"
    input,        \* the query text
    table,        \* the external table
    query,        \* the query IR ParseQuery returned
    rootNode,     \* the plan CreatePlan returned
    iterator,     \* the iterator Execute pulls from
    world,        \* [closes, pulls, opens]: per iterator of the table its Close and Next
                  \* calls, and the calls of Iterate
    sink,         \* the values written to the writer, in order
    result,       \* what the run returned: "none", "nil", "parse error", "error"
    condText,     \* the condition text
    record,       \* the record the condition is evaluated on
    lpc,          \* ParseExpression side: "idle", "start", "parsed", "done"
    legacyExpr,   \* the tree ParseExpression returned
    legacyResult, \* its value on the record: "none", "true", "false"
    spc,          \* grammar side: "idle", "start", "parsed", "done"
    sqlExpr,      \* the Filter of the parsed statement
    sqlResult,    \* its value on the record: "none", "true", "false", "parse error"
    path,         \* the path of a path query
    pathRecord,   \* the record the path is extracted from
    xpc,          \* path query: "idle", "start", "done"
    extracted     \* what Extract returned: (value, error)

pipelineVars == <<pc, input, table, query, rootNode, iterator, world, sink, result>>

conditionVars == <<condText, record, lpc, legacyExpr, legacyResult, spc, sqlExpr, sqlResult>>

pathVars == <<path, pathRecord, xpc, extracted>>

vars == <<pipelineVars, conditionVars, pathVars>>

NilNode == [kind |-> "nil"]

\* no query is run
PipelineIdle ==
    /\ pc = "idle"
    /\ input = <<>>
    /\ table = GoodTable(<<>>)
    /\ query = NilQuery
    /\ rootNode = NilNode
    /\ iterator = NilIter
    /\ world = NewWorld
    /\ sink = <<>>
    /\ result = "none"

\* no path query is run
PathIdle ==
    /\ path = <<>>
    /\ pathRecord = Rec(<<>>)
    /\ xpc = "idle"
    /\ extracted = Err

\* no condition is evaluated
ConditionIdle ==
    /\ condText = <<>>
    /\ record = Rec(<<>>)
    /\ lpc = "idle"
    /\ legacyExpr = NilExpr
    /\ legacyResult = "none"
    /\ spc = "idle"
    /\ sqlExpr = NilExpr
    /\ sqlResult = "none"

Init ==
    /\ \/ /\ input \in ProjectionQueries
          /\ table \in {GoodTable(rows) : rows \in SeqsUpTo(ProjectionRows, MaxRows)}
       \/ /\ input \in NestedQueries
          /\ table \in {GoodTable(rows) : rows \in SeqsUpTo(NestedRows, MaxRows)}
       \/ /\ input \in AggregationQueries
          /\ table \in {GoodTable(rows) : rows \in SeqsUpTo(AggregationRows, MaxRows)}
    /\ pc = "start"
    /\ query = NilQuery
    /\ rootNode = NilNode
    /\ iterator = NilIter
    /\ world = NewWorld
    /\ sink = <<>>
    /\ result = "none"
    /\ ConditionIdle
    /\ PathIdle

\* query.ParseQuery; when it fails the query is neither planned nor run
Parse ==
    /\ pc = "start"
    /\ With(ParseQuery(input), LAMBDA r :
          IF r.ok
          THEN /\ query' = r.query
               /\ pc' = "parsed"
               /\ UNCHANGED result
          ELSE /\ result' = "parse error"
               /\ pc' = "done"
               /\ UNCHANGED query)
    /\ UNCHANGED <<input, table, rootNode, iterator, world, sink, conditionVars, pathVars>>

\* planner.CreatePlan
Plan ==
    /\ pc = "parsed"
    /\ rootNode' = CreatePlan(query)
    /\ pc' = "planned"
    /\ UNCHANGED <<input, table, query, iterator, world, sink, result, conditionVars, pathVars>>

\* Executor.Execute, up to the loop: rootNode.Execute()
ExecuteOpen ==
    /\ pc = "planned"
    /\ With(NodeExecute(rootNode, table, world), LAMBDA r :
          /\ world' = r.w
          /\ IF r.err
             THEN /\ result' = "error"
                  /\ pc' = "done"
                  /\ UNCHANGED iterator
             ELSE /\ iterator' = r.it
                  /\ pc' = "running"
                  /\ UNCHANGED result)
    /\ UNCHANGED <<input, table, query, rootNode, sink, conditionVars, pathVars>>

\* one iteration of the loop: Next returned true, the row is encoded
ExecuteEmit ==
    /\ pc = "running"
    /\ With(IterNext(iterator, table, world), LAMBDA r :
          /\ r.ok
          /\ iterator' = r.it
          /\ world' = r.w
          /\ sink' = Append(sink, IterRow(r.it, table)))
    /\ UNCHANGED <<pc, input, table, query, rootNode, result, conditionVars, pathVars>>

\* the end of the loop: Next returned false, Error is checked and the
\* deferred Close runs
ExecuteReturn ==
    /\ pc = "running"
    /\ With(IterNext(iterator, table, world), LAMBDA r :
          /\ ~r.ok
          /\ iterator' = r.it
          /\ world' = IterClose(r.it, r.w)
          /\ result' = IF IterError(r.it) THEN "error" ELSE "nil")
    /\ pc' = "done"
    /\ UNCHANGED <<input, table, query, rootNode, sink, conditionVars, pathVars>>

Next == Parse \/ Plan \/ ExecuteOpen \/ ExecuteEmit \/ ExecuteReturn

Spec == Init /\ [][Next]_vars

BoolStr(b) == IF b THEN "true" ELSE "false"

InitExpr ==
    /\ \/ /\ condText \in PlainTexts \cup GroupedTexts
          /\ record \in BooleanRecords
       \/ /\ condText \in CollectionTexts
          /\ record \in CollectionRecords
       \/ /\ condText \in ContainsTexts
          /\ record \in FlatRecords
    /\ lpc = "start"
    /\ legacyExpr = NilExpr
    /\ legacyResult = "none"
    /\ spc = "start"
    /\ sqlExpr = NilExpr
    /\ sqlResult = "none"
    /\ PipelineIdle
    /\ PathIdle

\* ParseExpression builds the tree from the condition text
LegacyParse ==
    /\ lpc = "start"
    /\ legacyExpr' = ParseExpression(condText)
    /\ lpc' = "parsed"
    /\ UNCHANGED <<condText, record, legacyResult, spc, sqlExpr, sqlResult, pipelineVars, pathVars>>

\* the tree ParseExpression built is evaluated on the record
LegacyEvaluate ==
    /\ lpc = "parsed"
    /\ legacyResult' = BoolStr(Evaluate(legacyExpr, record))
    /\ lpc' = "done"
    /\ UNCHANGED <<condText, record, legacyExpr, spc, sqlExpr, sqlResult, pipelineVars, pathVars>>

\* ParseQuery parses the statement with the condition as its WHERE clause;
\* ToSelectQuery lowers the clause with ToExpression
SqlParse ==
    /\ spc = "start"
    /\ With(ParseQuery(SelectStarWhere \o condText), LAMBDA r :
          IF r.ok
          THEN /\ sqlExpr' = r.query.Filter
               /\ spc' = "parsed"
               /\ UNCHANGED sqlResult
          ELSE /\ sqlResult' = "parse error"
               /\ spc' = "done"
               /\ UNCHANGED sqlExpr)
    /\ UNCHANGED <<condText, record, lpc, legacyExpr, legacyResult, pipelineVars, pathVars>>

\* the Filter of the statement is evaluated on the record
SqlEvaluate ==
    /\ spc = "parsed"
    /\ sqlResult' = BoolStr(Evaluate(sqlExpr, record))
    /\ spc' = "done"
    /\ UNCHANGED <<condText, record, lpc, legacyExpr, legacyResult, sqlExpr, pipelineVars, pathVars>>

NextExpr == LegacyParse \/ LegacyEvaluate \/ SqlParse \/ SqlEvaluate

SpecExpr == InitExpr /\ [][NextExpr]_vars

(***************************************************************************)
(* The query pipeline in a failing environment: the table may fail to open *)
(* or fail while it is read, and the writer may refuse a row.              *)
(***************************************************************************)

InitFaulty ==
    /\ input \in StreamingQueries \cup BlockingQueries
    /\ table \in FaultyTables
    /\ pc = "start"
    /\ query = NilQuery
    /\ rootNode = NilNode
    /\ iterator = NilIter
    /\ world = NewWorld
    /\ sink = <<>>
    /\ result = "none"
    /\ ConditionIdle
    /\ PathIdle

\* one iteration of the loop: Next returned true and encoder.Encode fails;
\* Execute returns the writer's error and the deferred Close runs
ExecuteWriteFail ==
    /\ pc = "running"
    /\ With(IterNext(iterator, table, world), LAMBDA r :
          /\ r.ok
          /\ iterator' = r.it
          /\ world' = IterClose(r.it, r.w))
    /\ result' = "write error"
    /\ pc' = "done"
    /\ UNCHANGED <<input, table, query, rootNode, sink, conditionVars, pathVars>>

NextFaulty == Parse \/ Plan \/ ExecuteOpen \/ ExecuteEmit \/ ExecuteReturn \/ ExecuteWriteFail

SpecFaulty == InitFaulty /\ [][NextFaulty]_vars

(***************************************************************************)
(* The path query: Query.Extract of a path on a record                     *)
(***************************************************************************)

InitPath ==
    /\ \/ \E sh \in KeyShapes :
            /\ path = KeyPathText(sh)
            /\ pathRecord \in KeyedRecordsFor(sh)
       \/ /\ path \in {SiblingPathText(sh) : sh \in SiblingShapes}
          /\ pathRecord \in SiblingRecords
    /\ xpc = "start"
    /\ extracted = Err
    /\ PipelineIdle
    /\ ConditionIdle

\* NewQuery(path).Extract(record)
ExtractPath ==
    /\ xpc = "start"
    /\ extracted' = Extract(pathRecord, path)
    /\ xpc' = "done"
    /\ UNCHANGED <<path, pathRecord, pipelineVars, conditionVars>>

NextPath == ExtractPath

SpecPath == InitPath /\ [][NextPath]_vars

(***************************************************************************)
(* Aggregating statements over mixed values, and a consumer that calls     *)
(* Next again after it has returned false (specification SpecAggregate)    *)
(***************************************************************************)

InitAggregate ==
    /\ input \in GroupingQueries
    /\ table \in {GoodTable(rows) : rows \in SeqsUpTo(MixedRows, MaxRows)} \cup FaultyTables
    /\ pc = "start"
    /\ query = NilQuery
    /\ rootNode = NilNode
    /\ iterator = NilIter
    /\ world = NewWorld
    /\ sink = <<>>
    /\ result = "none"
    /\ ConditionIdle
    /\ PathIdle

\* aggregateIterator.Next, called once more after the loop has ended
NextAfterEnd ==
    /\ pc = "done"
    /\ iterator.kind = "aggregate"
    /\ world.opens < 1 + MaxCalls
    /\ iterator.results.nil \/ iterator.index < Len(iterator.results.rows) + MaxCalls
    /\ With(IterNext(iterator, table, world), LAMBDA r :
          /\ iterator' = r.it
          /\ world' = r.w)
    /\ UNCHANGED <<pc, input, table, query, rootNode, sink, result, conditionVars, pathVars>>

NextAggregate == Parse \/ Plan \/ ExecuteOpen \/ ExecuteEmit \/ ExecuteReturn \/ NextAfterEnd

SpecAggregate == InitAggregate /\ [][NextAggregate]_vars

(***************************************************************************)
(* Properties of the query pipeline (specification Spec)                   *)
(***************************************************************************)

KX == <<"x">>
KY == <<"y">>

\* the value of key k of a record, null when the record has no such key
FieldOf(rec, k) == IF k \in DOMAIN rec THEN rec[k] ELSE Null

\* the table's rows as the scan hands them out
RawRows == [i \in 1..Len(table.rows) |-> Map(table.rows[i])]

\* C1: a SELECT * without WHERE and GROUP BY is planned as the bare scan,
\* with no Project or Aggregate node around it, and the run emits exactly
\* the table's rows, unchanged and in their order
C1_StarPassThrough ==
    (pc = "done" /\ input = QStar) => (rootNode.kind = "Scan" /\ sink = RawRows)

\* one output row per record: key k bound to the record's field a
Renamed(rows, k) == [i \in 1..Len(rows) |-> OMap(<<KeyVal(k, FieldOf(rows[i], KA))>>)]

\* the record's field k is a number greater than n
NumGreater(rec, k, n) == k \in DOMAIN rec /\ rec[k].t = "num" /\ rec[k].v > n

\* C2: nested FROM sub-queries compose: the outer query reads the rows the
\* inner query emits under the inner aliases, at nesting depth one and two,
\* and a WHERE of either level selects by the names visible at that level
C2_NestedCompose ==
    pc = "done" =>
        /\ input \in NestedQueries => result = "nil"
        /\ input = QNested1 => sink = Renamed(table.rows, KX)
        /\ input = QNested2 => sink = Renamed(table.rows, KY)
        /\ input = QInnerWhere =>
                sink = Renamed(SelectSeq(table.rows, LAMBDA r : NumGreater(r, KB, 15)), KX)
        /\ input = QOuterWhere =>
                sink = Renamed(SelectSeq(table.rows, LAMBDA r : NumGreater(r, KA, 1)), KX)

\* the doubly nested query over [{a:1},{a:2}] has emitted [{y:1},{y:2}]
C2_Witness ==
    /\ pc = "done"
    /\ input = QNested2
    /\ table.rows = <<Rec(<< <<KA, Num(1)>> >>), Rec(<< <<KA, Num(2)>> >>)>>
    /\ sink = <<OMap(<<KeyVal(KY, Num(1))>>), OMap(<<KeyVal(KY, Num(2))>>)>>

\* the root iterator is a projection that has taken a row from its source,
\* the table's iterator or an inner projection
HasSourceRow ==
    /\ pc \in {"running", "done"}
    /\ iterator.kind = "project"
    /\ \/ iterator.source.kind = "scan" /\ iterator.source.index >= 1
       \/ iterator.source.kind = "project" /\ iterator.source.currentRow # NilRow

\* the source row the projection read last
SourceRow == IterRow(iterator.source, table)

\* the value extracted for a field, null when the extraction fails
ExtractedValue(row, f) == LET r == Get(row, f.Path) IN IF r.ok THEN r.val ELSE Null

\* the positions of the sequence-valued fields and their lengths
SequenceFields(row, fields) ==
    {j \in 1..Len(fields) : ExtractedValue(row, fields[j]).t = "arr"}

SequenceLengths(row, fields) ==
    {Len(ExtractedValue(row, fields[j]).v) : j \in SequenceFields(row, fields)}

\* at least one field is a sequence and all sequences have one non-zero length
ZipCase(row, fields) ==
    /\ SequenceFields(row, fields) # {}
    /\ Cardinality(SequenceLengths(row, fields)) = 1
    /\ 0 \notin SequenceLengths(row, fields)

\* the lengths differ, or a sequence is empty, or no field is a sequence
FallbackCase(row, fields) ==
    \/ Cardinality(SequenceLengths(row, fields)) > 1
    \/ 0 \in SequenceLengths(row, fields)
    \/ SequenceFields(row, fields) = {}

\* output row i of the zip: element i of every sequence, every scalar as it is
ZippedRow(row, fields, i) ==
    OMap([j \in 1..Len(fields) |->
            KeyVal(keyOf(fields[j]),
                   LET v == ExtractedValue(row, fields[j])
                   IN IF v.t = "arr" THEN v.v[i] ELSE v)])

\* the single output row carrying every extracted value as it is
VerbatimRow(row, fields) ==
    OMap([j \in 1..Len(fields) |-> KeyVal(keyOf(fields[j]), ExtractedValue(row, fields[j]))])

\* C3: projection zip: a source row with at least one sequence-valued field
\* whose sequences all have the same non-zero length N gives exactly N output
\* rows, row i with element i of every sequence and every scalar repeated:
\* what was written last and what is still pending are together those N rows
C3_ProjectionZip ==
    HasSourceRow =>
        LET row == SourceRow
            fields == iterator.fields
            n == CHOOSE k \in SequenceLengths(row, fields) : TRUE
            p == Len(iterator.pendingRows)
        IN ZipCase(row, fields) =>
                /\ p < n
                /\ Len(sink) >= n - p
                /\ \A i \in 1..n :
                        ZippedRow(row, fields, i) =
                            IF i <= n - p THEN sink[Len(sink) - (n - p) + i]
                            ELSE iterator.pendingRows[i - (n - p)]

\* a row with a scalar and a sequence of length 2 or more has been zipped
\* and written completely
C3_Witness ==
    /\ HasSourceRow
    /\ pc = "done"
    /\ ZipCase(SourceRow, iterator.fields)
    /\ \E n \in SequenceLengths(SourceRow, iterator.fields) : n >= 2 /\ Len(sink) >= n
    /\ \E j \in 1..Len(iterator.fields) : j \notin SequenceFields(SourceRow, iterator.fields)

\* C4: projection fallback: a source row whose sequences differ in length,
\* or with an empty sequence, or without any sequence, gives exactly one
\* output row with every extracted value as it is: it is the row written
\* last and nothing is pending
C4_ProjectionFallback ==
    HasSourceRow =>
        (FallbackCase(SourceRow, iterator.fields) =>
            /\ iterator.pendingRows = <<>>
            /\ Len(sink) >= 1
            /\ sink[Len(sink)] = VerbatimRow(SourceRow, iterator.fields))

\* a row whose sequences differ in length has been projected
C4_Witness ==
    /\ HasSourceRow
    /\ pc = "done"
    /\ Cardinality(SequenceLengths(SourceRow, iterator.fields)) > 1
    /\ sink # <<>>

AggregateDone == pc = "done" /\ result = "nil" /\ rootNode.kind = "Aggregate"

\* the records that reach the Aggregate node: the table's rows, or those of
\* them the WHERE clause accepts
AggregateInput ==
    IF rootNode.Input.kind = "Filter"
    THEN SelectSeq(table.rows, LAMBDA r : Evaluate(rootNode.Input.Expression, r))
    ELSE table.rows

\* the result of an accumulator nothing was added to
FreshValue(agg) ==
    CASE ToUpper(agg) \in {FnCOUNT, FnSUM, FnAVG} -> Num(0)
      [] ToUpper(agg) \in {FnMAX, FnMIN} -> Null

FreshRow(fields) ==
    OMap([j \in 1..Len(fields) |->
            KeyVal(keyOf(fields[j]),
                   IF fields[j].Aggregate # <<>> THEN FreshValue(fields[j].Aggregate) ELSE Null)])

\* C6: when the input of the Aggregate node yields no row, the run emits
\* exactly one row built from fresh accumulators (COUNT = 0) if the query has
\* no GROUP BY and at least one aggregate field, and no row otherwise
C6_AggregateEmptyInput ==
    (AggregateDone /\ AggregateInput = <<>>) =>
        IF /\ query.GroupBy = <<>>
           /\ \E j \in 1..Len(query.Fields) : query.Fields[j].Aggregate # <<>>
        THEN sink = <<FreshRow(query.Fields)>>
        ELSE sink = <<>>

\* COUNT and SUM over a table whose rows the WHERE clause all rejects have
\* given one row of zeros
C6_Witness ==
    /\ AggregateDone
    /\ input = QCountWhere
    /\ table.rows # <<>>
    /\ AggregateInput = <<>>
    /\ sink = <<OMap(<<KeyVal(fmtKey(FnCOUNT, KA), Num(0)), KeyVal(fmtKey(FnSUM, KA), Num(0))>>)>>

\* every reordering of a sequence
Reorderings(rows) ==
    LET n == Len(rows)
        bij == {f \in [1..n -> 1..n] : \A i, j \in 1..n : f[i] = f[j] => i = j}
    IN {[i \in 1..n |-> rows[f[i]]] : f \in bij}

\* the rows an iterator yields until Next returns false
RECURSIVE Drain(_, _, _, _)
Drain(it, tbl, w, out) ==
    LET r == IterNext(it, tbl, w)
    IN IF r.ok THEN Drain(r.it, tbl, r.w, Append(out, IterRow(r.it, tbl))) ELSE out

\* the rows a plan emits over a table
OutputOf(node, tbl) ==
    LET e == NodeExecute(node, tbl, NewWorld)
    IN Drain(e.it, tbl, e.w, <<>>)

\* the group key of an input record under GROUP BY k
GroupKeyOf(rec) == IF KK \in DOMAIN rec THEN Sprintf(rec[KK]) ELSE NullKey

\* C7: grouped aggregation is order-independent: the run emits one row per
\* distinct group key, in ascending key order, and the plan emits the same
\* rows in the same order over every permutation of the table's rows
C7_GroupedOrderIndependent ==
    (AggregateDone /\ query.GroupBy = KK /\ query.Fields[1].Path = KK) =>
        /\ Len(sink) = Cardinality({GroupKeyOf(AggregateInput[i]) : i \in 1..Len(AggregateInput)})
        /\ \A i \in 1..Len(sink) :
                \E r \in 1..Len(AggregateInput) : sink[i].v[1].Val = Str(GroupKeyOf(AggregateInput[r]))
        /\ \A i, j \in 1..Len(sink) : i < j => StrLess(sink[i].v[1].Val.v, sink[j].v[1].Val.v)
        /\ \A rows \in Reorderings(table.rows) : OutputOf(rootNode, GoodTable(rows)) = sink

(***************************************************************************)
(* Properties of the condition evaluators (specification SpecExpr)         *)
(***************************************************************************)

\* the truth of the three conditions a=1, b=2, c=3 on a record
HoldsA(rec) == FieldOf(rec, KA) = Num(1)
HoldsB(rec) == FieldOf(rec, KB) = Num(2)
HoldsC(rec) == FieldOf(rec, KC) = Num(3)

\* C8: operator precedence: without parentheses "A OR B AND C" evaluates as
\* A OR (B AND C) and "A AND B OR C" as (A AND B) OR C, for every truth
\* assignment of the three conditions, in the tree of either builder
C8_Precedence ==
    LET orAnd == BoolStr(HoldsA(record) \/ (HoldsB(record) /\ HoldsC(record)))
        andOr == BoolStr((HoldsA(record) /\ HoldsB(record)) \/ HoldsC(record))
    IN /\ (condText = TOrAnd /\ lpc = "done") => legacyResult = orAnd
       /\ (condText = TOrAnd /\ spc = "done") => sqlResult = orAnd
       /\ (condText = TAndOr /\ lpc = "done") => legacyResult = andOr
       /\ (condText = TAndOr /\ spc = "done") => sqlResult = andOr

\* "a=1 OR b=2 AND c=3" is true for both builders on a record where only a=1
\* holds, where (A OR B) AND C would be false
C8_Witness ==
    /\ condText = TOrAnd
    /\ HoldsA(record) /\ ~HoldsB(record) /\ ~HoldsC(record)
    /\ lpc = "done" /\ legacyResult = "true"
    /\ spc = "done" /\ sqlResult = "true"

\* the truth value the parentheses of a condition text prescribe
GroupedValue(text, rec) ==
    CASE text = TGroupOrAnd -> (HoldsA(rec) \/ HoldsB(rec)) /\ HoldsC(rec)
      [] text = TOrGroupAnd -> HoldsA(rec) \/ (HoldsB(rec) /\ HoldsC(rec))
      [] text = TAndGroupOr -> HoldsA(rec) /\ (HoldsB(rec) \/ HoldsC(rec))
      [] text = TNested -> ((HoldsA(rec) \/ HoldsB(rec)) /\ HoldsC(rec)) \/ HoldsA(rec)
      [] text = TDoubleParen -> HoldsA(rec)

\* C9: parenthesised grouping holds for both builders: on a condition text
\* with parentheses the tree of ParseExpression and the tree of the grammar
\* evaluate to the same truth value on every record, the one the
\* parentheses prescribe
C9_GroupingBothBuilders ==
    (condText \in GroupedTexts /\ lpc = "done" /\ spc = "done") =>
        /\ legacyResult = sqlResult
        /\ sqlResult = BoolStr(GroupedValue(condText, record))

\* the scalars contained in a value, at any depth
RECURSIVE ContainedScalars(_)
ContainedScalars(v) ==
    CASE v.t = "arr" -> UNION {ContainedScalars(v.v[i]) : i \in 1..Len(v.v)}
      [] v.t = "map" -> UNION {ContainedScalars(v.v[k]) : k \in DOMAIN v.v}
      [] OTHER -> {v}

\* the comparison of a condition text on one scalar
Satisfies(text, s) ==
    CASE text = TEqX -> s = Str(<<"x">>)
      [] text = TNeX -> s # Str(<<"x">>)
      [] text = TGt1 -> s.t = "num" /\ s.v > 1

\* C10: implicit existential quantification: a condition on a field whose
\* value is a sequence or a mapping, nested to any depth, is true iff at
\* least one contained scalar satisfies the comparison
C10_ImplicitExists ==
    (condText \in CollectionTexts /\ spc = "done") =>
        sqlResult = BoolStr(\E s \in ContainedScalars(FieldOf(record, KTags)) : Satisfies(condText, s))

\* tags = 'x' is true on {tags: [y, {m: x}]}
C10_Witness ==
    /\ condText = TEqX
    /\ FieldOf(record, KTags) = Arr(<<Str(<<"y">>), Map([k \in {KM} |-> Str(<<"x">>)])>>)
    /\ spc = "done"
    /\ sqlResult = "true"

\* the string form of the value, or of some element of a sequence, contains
\* the text lit
ContainsLit(value, lit) ==
    IF value.t = "arr"
    THEN \E i \in 1..Len(value.v) : Contains(Sprintf(value.v[i]), lit)
    ELSE Contains(Sprintf(value), lit)

\* C11: in a WHERE clause "tags CONTAINS 'x'" and "tags ~= 'x'" parse and
\* are true on exactly the records where the string form of tags, or of
\* some element of a sequence-valued tags, contains x
C11_ContainsSelects ==
    (condText \in ContainsTexts /\ spc = "done") =>
        sqlResult = BoolStr(ContainsLit(FieldOf(record, KTags), <<"x">>))

(***************************************************************************)
(* Properties of the pipeline in a failing environment (SpecFaulty)        *)
(***************************************************************************)

\* Execute has returned and the table failed during the run: it could not
\* be opened, or its iterator reported an error when the loop pulled it dry
SourceFailed ==
    /\ pc = "done"
    /\ result \in {"nil", "error"}
    /\ table.openFails \/ table.failAfter \in 0..Len(table.rows)

\* C12: source errors propagate through every node: when the table cannot
\* be opened or its iterator reports an error, the Error of the root
\* iterator (Filter, Project or Aggregate) reports it after Next has
\* returned false, and Execute returns the error, not nil
C12_SourceErrorPropagates ==
    SourceFailed => (result = "error" /\ (iterator # NilIter => IterError(iterator)))

\* the plan has no Aggregate node: every row is emitted as it is pulled
RECURSIVE IsStreaming(_)
IsStreaming(n) ==
    CASE n.kind = "Scan" -> TRUE
      [] n.kind = "Filter" \/ n.kind = "Project" -> IsStreaming(n.Input)
      [] OTHER -> FALSE

\* the table's iterator failed after it had yielded failAfter rows
FailedMidStream ==
    SourceFailed /\ ~table.openFails /\ IsStreaming(rootNode)

\* the rows the plan emits over the rows the table yielded before it failed
RowsBeforeFailure == OutputOf(rootNode, GoodTable(Take(table.rows, table.failAfter)))

\* a step leaves the rows already written in place
SinkKept == Len(sink) <= Len(sink') /\ SubSeq(sink', 1, Len(sink)) = sink

\* C13: partial emission: when the table fails after k rows in a plan of
\* Scan, Filter and Project nodes, the sink holds, in order, exactly the
\* output rows derived from those k rows, Execute returns the error, and
\* no step ever removes or overwrites a written row
C13_PartialEmission ==
    /\ [](FailedMidStream => (sink = RowsBeforeFailure /\ result = "error"))
    /\ [][SinkKept]_vars

\* SELECT xs, ys over a table that fails after the first of two rows: the
\* two rows unwound from the first record are written, then the error
C13_Witness ==
    /\ FailedMidStream
    /\ input = QZip
    /\ table.failAfter = 1 /\ Len(table.rows) = 2
    /\ Len(sink) = 2
    /\ result = "error"

\* Execute has been called and has returned
ExecuteReturned == pc = "done" /\ result # "parse error"

\* C14: resource release: on every exit path of Execute (the rows are
\* exhausted, the writer fails, the table fails) and for every plan shape,
\* every iterator the Scan node opened on the table has been closed
\* exactly once when Execute returns, under an Aggregate node too
C14_ClosedExactlyOnce ==
    ExecuteReturned => \A id \in 1..Len(world.closes) : world.closes[id] = 1

\* an aggregate plan over a table that fails after its first row: the
\* iterator aggregateIterator.init opened is closed when Execute returns
C14_Witness ==
    /\ ExecuteReturned
    /\ rootNode.kind = "Aggregate"
    /\ table.failAfter = 1
    /\ world.closes = <<1>>

\* the tables of the catalog: NewCatalog starts without tables and the
\* program registers none
RegisteredTables == {}

\* the statement has been parsed and its FROM clause names a table the
\* catalog does not hold
NamesUnknownTable ==
    /\ pc \notin {"start", "idle"}
    /\ ~query.nil
    /\ query.FromTable # <<>>
    /\ query.FromTable \notin RegisteredTables

\* C15: a FROM clause that names an unknown table is rejected when the plan
\* is built: CreatePlan returns a plan error, no plan is kept, no iterator
\* is opened on any table and no row is written
C15_UnknownTableIsPlanError ==
    (NamesUnknownTable /\ pc # "parsed") =>
        /\ result = "plan error"
        /\ rootNode = NilNode
        /\ world.closes = <<>>
        /\ sink = <<>>

\* the names of the aggregate functions
AggregateNames == {FnMAX, FnMIN, FnAVG, FnCOUNT, FnSUM}

\* C16: a SELECT field that applies a function other than MAX, MIN, AVG,
\* COUNT and SUM is rejected by ParseQuery: no statement that ParseQuery
\* accepted carries such a function, so none is planned or evaluated
C16_UnknownFunctionRejected ==
    (pc \notin {"start", "idle"} /\ ~query.nil) =>
        \A i \in 1..Len(query.Fields) :
            query.Fields[i].Aggregate # <<>> => ToUpper(query.Fields[i].Aggregate) \in AggregateNames

\* the text in lower case
LowerText(s) ==
    [i \in 1..Len(s) |->
        IF IsUpper(s[i]) THEN Alphabet[Code(s[i]) + Code("a") - Code("A")] ELSE s[i]]

\* the statements of the runs whose fields have no AS alias
NoAliasQueries == {QField, QWhere, QZip, QCount, QGroupSum, QCountPath, QLowerCount}

\* the default output key of a field
DefaultKey(f) ==
    IF f.Aggregate = <<>> THEN f.Path
    ELSE LowerText(f.Aggregate) \o <<"_">> \o ReplaceAll(f.Path, ".", "_")

\* C17: default output key: every row a statement without aliases emits
\* holds a plain field under its path and an aggregate under
\* <lowercase function>_<path with '.' replaced by '_'>, in whatever case
\* the function name was typed
C17_DefaultOutputKey ==
    (pc = "done" /\ input \in NoAliasQueries /\ ~query.nil) =>
        \A r \in 1..Len(sink) : \A i \in 1..Len(query.Fields) :
            sink[r].v[i].Key = DefaultKey(query.Fields[i])

(***************************************************************************)
(* Properties of the path query (specification SpecPath)                   *)
(***************************************************************************)

\* the key k satisfies the predicate: the key string compared to the literal
KeyHolds(pred, k) ==
    CASE pred.op = OpEq -> k = pred.lit
      [] pred.op = OpNe -> k # pred.lit
      [] pred.op = OpTilde -> Contains(k, pred.lit)
      [] pred.op = OpGe -> k = pred.lit \/ StrLess(pred.lit, k)
      [] pred.op = OpLt -> StrLess(k, pred.lit)

\* the value under the one-key remaining path rest, the value itself when
\* the path ends
UnderRest(val, rest) ==
    IF rest = <<>> THEN Ok(val)
    ELSE IF val.t = "map" /\ rest \in DOMAIN val.v THEN Ok(val.v[rest])
    ELSE Err

\* the mapping the wildcard of the shape runs over
KeyedBase(rec, sh) == IF sh.key = <<>> THEN rec ELSE rec[sh.key].v

\* the keys that satisfy the predicate and have a value under the remaining path
SurvivingKeys(base, sh) ==
    {k \in DOMAIN base : KeyHolds(sh.pred, k) /\ UnderRest(base[k], sh.rest).ok}

\* the mapping from each surviving key to its extracted value, NotFound
\* when no key survives
KeyedExpected(base, sh) ==
    IF SurvivingKeys(base, sh) = {} THEN Err
    ELSE Ok(Map([k \in SurvivingKeys(base, sh) |-> UnderRest(base[k], sh.rest).val]))

\* C18: a wildcard over a mapping with an inline key predicate extracts
\* exactly the mapping from each key that satisfies the predicate to the
\* value the remaining path extracts under it, and fails with NotFound
\* when no key survives; the path written with * and the path written
\* with % extract the same
C18_KeyPredicate ==
    \A sh \in KeyShapes :
        (xpc = "done" /\ path = KeyPathText(sh)) =>
            /\ extracted = KeyedExpected(KeyedBase(pathRecord, sh), sh)
            /\ Extract(pathRecord, KeyPathText([sh EXCEPT !.wild = <<"*">>]))
                   = Extract(pathRecord, KeyPathText([sh EXCEPT !.wild = <<"%">>]))

\* the element has the field k and its string form is the literal
SiblingEquals(e, lit) == e.t = "map" /\ KK \in DOMAIN e.v /\ Sprintf(e.v[KK]) = lit

\* the elements of xs whose field k equals the literal and that have a
\* value under the remaining path, in their order
SelectedElements(rec, sh) ==
    SelectSeq(rec[KXS].v, LAMBDA e : SiblingEquals(e, sh.lit) /\ UnderRest(e, sh.rest).ok)

\* the sequence of the values under the remaining path of the selected elements
SiblingExpected(rec, sh) ==
    Ok(Arr([i \in 1..Len(SelectedElements(rec, sh)) |->
                UnderRest(SelectedElements(rec, sh)[i], sh.rest).val]))

\* C19: sibling predicate under an array wildcard: xs.*.k=lit.a extracts
\* the sequence, in element order, of the field a of exactly those
\* elements of xs whose own field k equals lit; the remaining path is
\* applied to the matching element itself, not to the value of k
C19_SiblingPredicate ==
    \A sh \in SiblingShapes :
        (xpc = "done" /\ ~sh.quoted /\ path = SiblingPathText(sh)) =>
            extracted = SiblingExpected(pathRecord, sh)

\* xs.*.k=u.a on xs = [{k:u, a:4}, {k:t, a:2}, {k:u, a:1}] extracts [4, 1]
C19_Witness ==
    /\ xpc = "done"
    /\ path = SiblingPathText([wild |-> <<"*">>, lit |-> <<"u">>, quoted |-> FALSE, rest |-> KA])
    /\ Len(pathRecord[KXS].v) = 3
    /\ pathRecord[KXS].v[2] = Map(Rec(<< <<KK, Str(<<"t">>)>>, <<KA, Num(2)>> >>))
    /\ extracted = Ok(Arr(<<Num(4), Num(1)>>))

\* C20: a sibling predicate whose literal is written in single quotes
\* (xs.*.k='u') selects the same elements of xs as the unquoted form
\* (xs.*.k=u): the two paths extract the same
C20_QuotedLiteral ==
    \A sh \in SiblingShapes :
        (xpc = "done" /\ sh.quoted /\ path = SiblingPathText(sh)) =>
            extracted = Extract(pathRecord, SiblingPathText([sh EXCEPT !.quoted = FALSE]))

\* the rows the table yielded during the run
RowsRead ==
    IF table.openFails THEN <<>>
    ELSE IF table.failAfter = NoFail THEN table.rows
    ELSE Take(table.rows, table.failAfter)

\* the condition of the statement holds on a row that has the field
KeptBy(text, row) ==
    CASE text = QNeMissing -> KB \in DOMAIN row /\ row[KB] # Num(5)
      [] text = QLtMissing -> KB \in DOMAIN row /\ row[KB].t = "num" /\ row[KB].v < 50
      [] text = QNeScalar -> FALSE

\* the operators of Filter.matchValue
FilterOperators == {OpEq, OpEq2, OpNe, OpGt, OpGe, OpLt, OpLe, OpTilde, OpContains}

\* paths that cannot be extracted from any row of the runs: a missing key,
\* an index out of range, a key of a scalar
UnextractablePaths == {<<"z">>, <<"x", "s", ".", "5">>, <<"a", ".", "b">>, <<"k", ".", "0">>}

\* C21: a WHERE condition whose field cannot be extracted from a row is
\* false for that row under every operator, != included: the Filter node
\* drops the row and goes on with the next one, so the run emits exactly
\* the rows that have the field and satisfy the condition, and a run over
\* a table that does not fail returns nil
C21_UnextractableIsFalse ==
    (pc = "done" /\ input \in MissingFieldQueries /\ result \in {"nil", "error"}) =>
        /\ sink = Renamed(SelectSeq(RowsRead, LAMBDA row : KeptBy(input, row)), KA)
        /\ table = GoodTable(table.rows) => result = "nil"
        /\ \A i \in 1..Len(table.rows) : \A op \in FilterOperators : \A p \in UnextractablePaths :
                /\ ~Extract(table.rows[i], p).ok
                /\ ~Match(NewFilter(p, op, Num(5)), table.rows[i])

\* SELECT a WHERE b != 5 over a row without b, a row with b = 10 and a
\* row without b: only the second row is emitted and the run returns nil
C21_Witness ==
    /\ pc = "done" /\ input = QNeMissing /\ result = "nil"
    /\ Len(table.rows) = 3
    /\ KB \notin DOMAIN table.rows[1] /\ KB \in DOMAIN table.rows[2] /\ KB \notin DOMAIN table.rows[3]
    /\ sink = <<OMap(<<KeyVal(KA, Num(2))>>)>>

\* the terminal node a query level asks for
TerminalKind(q) ==
    IF q.GroupBy # <<>> \/ \E i \in 1..Len(q.Fields) : q.Fields[i].Aggregate # <<>>
    THEN "Aggregate"
    ELSE IF Len(q.Fields) > 0 THEN "Project" ELSE "none"

\* node is the plan of query level q: the terminal node when the level has
\* one, directly below it the Filter when the level has a WHERE, directly
\* below that the source (the plan of the subquery, or a Scan)
RECURSIVE ShapeOf(_, _)
ShapeOf(q, node) ==
    LET kind == TerminalKind(q)
        terminalOk ==
            CASE kind = "Aggregate" ->
                    /\ node.kind = "Aggregate"
                    /\ node.GroupByField = q.GroupBy /\ node.Fields = q.Fields
              [] kind = "Project" -> node.kind = "Project" /\ node.Fields = q.Fields
              [] OTHER -> TRUE
        below == IF kind = "none" THEN node ELSE node.Input
        filterOk == q.Filter.kind # "nil" =>
                        below.kind = "Filter" /\ below.Expression = q.Filter
        source == IF q.Filter.kind # "nil" THEN below.Input ELSE below
    IN /\ terminalOk
       /\ terminalOk => filterOk
       /\ (terminalOk /\ filterOk) =>
             IF ~q.FromQuery.nil THEN ShapeOf(q.FromQuery, source)
             ELSE source.kind = "Scan"

\* C22: at every query level the plan is source, then an optional Filter,
\* then an optional terminal node: Aggregate iff the level has a GROUP BY
\* or an aggregate field, else Project iff it lists a field, else none; the
\* Filter sits directly above the source and below the terminal node
C22_PlanShape ==
    pc \in {"planned", "running", "done"} /\ rootNode # NilNode => ShapeOf(query, rootNode)

\* a planned statement with a WHERE and an aggregate at the same level
C22_Witness ==
    /\ pc = "planned"
    /\ query.Filter.kind # "nil"
    /\ TerminalKind(query) = "Aggregate"
    /\ rootNode.kind = "Aggregate" /\ rootNode.Input.kind = "Filter"
    /\ rootNode.Input.Input.kind = "Scan"

\* the Aggregate iterator of the running plan, below any Filter and Project
RECURSIVE AggregateOf(_)
AggregateOf(it) ==
    CASE it.kind = "aggregate" -> it
      [] it.kind \in {"filter", "project"} -> AggregateOf(it.source)
      [] OTHER -> NilIter

\* the Aggregate iterator has built its result rows
Drained == AggregateOf(iterator).kind = "aggregate" /\ ~AggregateOf(iterator).results.nil

\* the table's iterator is not pulled from
NoMorePulls == world'.pulls = world.pulls /\ Len(world'.closes) = Len(world.closes)

\* C23: the Aggregate iterator returns no row until its input is exhausted:
\* a row of an aggregating plan is emitted only once the iterator has built
\* its results, and then every row of the table has been pulled (one more
\* call of Next found the end) and the table's iterator has been closed;
\* afterwards the input is never pulled from again
C23_AggregateBlocks ==
    /\ []((input \in BlockingQueries /\ sink # <<>>) => Drained)
    /\ [](Drained => /\ world.pulls = <<Len(table.rows) + 1>>
                     /\ world.closes = <<1>>)
    /\ [][Drained => (NoMorePulls /\ Drained')]_vars

\* SELECT COUNT(a) over three rows: the first row is emitted after four
\* calls of Next on the table's iterator, which is closed
C23_Witness ==
    /\ input = QCount /\ Len(table.rows) = 3 /\ table = GoodTable(table.rows)
    /\ pc = "running" /\ Len(sink) = 1
    /\ Drained
    /\ world.pulls = <<4>> /\ world.closes = <<1>>

\* the root iterator is a projection over the table's iterator or over a
\* filter of it
ProjectOverTable ==
    /\ pc \in {"running", "done"}
    /\ iterator.kind = "project"
    /\ \/ iterator.source.kind = "scan"
       \/ iterator.source.kind = "filter" /\ iterator.source.source.kind = "scan"

\* the rows the projection has pulled from its input so far, in order
PulledRows ==
    IF iterator.source.kind = "scan"
    THEN [i \in 1..iterator.source.index |-> Map(table.rows[i])]
    ELSE SelectSeq([i \in 1..iterator.source.source.index |-> Map(table.rows[i])],
                   LAMBDA row : accepts(iterator.source.expression, row))

\* the sub-rows of one input row, in sequence-index order
SubRows(row, fields) ==
    IF ZipCase(row, fields)
    THEN [i \in 1..(CHOOSE n \in SequenceLengths(row, fields) : TRUE) |-> ZippedRow(row, fields, i)]
    ELSE <<VerbatimRow(row, fields)>>

\* the sub-rows of the first n of the given input rows, row after row
RECURSIVE SubRowsUpTo(_, _, _)
SubRowsUpTo(rows, fields, n) ==
    IF n = 0 THEN <<>>
    ELSE SubRowsUpTo(rows, fields, n - 1) \o SubRows(rows[n], fields)

\* C24: the Project iterator pulls from its input only when no unwound row
\* is pending: while rows are pending a call of Next emits the first of
\* them and leaves the input alone; what is pending is a proper tail of
\* the sub-rows of the input row pulled last; and what was emitted followed
\* by what is pending is the sub-rows of the pulled input rows, row after
\* row, each row's sub-rows in sequence-index order
C24_ProjectBuffer ==
    /\ [](ProjectOverTable =>
            /\ sink \o iterator.pendingRows =
                    SubRowsUpTo(PulledRows, iterator.fields, Len(PulledRows))
            /\ iterator.pendingRows # <<>> =>
                    /\ PulledRows # <<>>
                    /\ Len(iterator.pendingRows) <
                            Len(SubRows(PulledRows[Len(PulledRows)], iterator.fields)))
    /\ [][(ProjectOverTable /\ iterator.pendingRows # <<>>) =>
                /\ world'.pulls = world.pulls
                /\ sink' = Append(sink, iterator.pendingRows[1])
                /\ iterator'.pendingRows = Tail(iterator.pendingRows)]_vars

\* SELECT a, xs AS v: both sub-rows of the first input row and the first
\* sub-row of the second have been emitted, the second sub-row is pending
C24_Witness ==
    /\ ProjectOverTable /\ pc = "running"
    /\ input = QZipScalar
    /\ iterator.source.index = 2
    /\ Len(sink) = 3 /\ Len(iterator.pendingRows) = 1
    /\ world.pulls = <<2>>

\* the group keys of the Aggregate node's input, and the i-th of them in
\* ascending order
InputGroupKeys ==
    IF query.GroupBy = <<>> THEN {<<>>}
    ELSE {keyText(Extract(AggregateInput[r], query.GroupBy)) : r \in 1..Len(AggregateInput)}

GroupKeyAt(i) ==
    CHOOSE k \in InputGroupKeys : Cardinality({o \in InputGroupKeys : StrLess(o, k)}) = i - 1

\* the positions of the fields without an aggregate function
PlainFields == {j \in 1..Len(query.Fields) : query.Fields[j].Aggregate = <<>>}

\* C25: every Aggregate result row has one entry per declared field, in the
\* order of declaration, and a field without an aggregate function holds
\* the group key string when its path is the GROUP BY path and null
\* otherwise
C25_PlainFieldsOfGroups ==
    (AggregateDone /\ AggregateInput # <<>>) =>
        /\ Len(sink) = Cardinality(InputGroupKeys)
        /\ \A i \in 1..Len(sink) :
                /\ Len(sink[i].v) = Len(query.Fields)
                /\ \A j \in 1..Len(query.Fields) : sink[i].v[j].Key = keyOf(query.Fields[j])
                /\ \A j \in PlainFields :
                        sink[i].v[j].Val =
                            IF query.Fields[j].Path = query.GroupBy THEN Str(GroupKeyAt(i))
                            ELSE Null

\* SELECT a, k, COUNT(a) AS n GROUP BY k over rows of the groups "t" and
\* "u": two rows, a null, k the group key, in the declared order
C25_Witness ==
    /\ AggregateDone /\ input = QGroupPlain
    /\ Len(sink) = 2
    /\ sink[1].v[1] = KeyVal(KA, Null) /\ sink[1].v[2] = KeyVal(KK, Str(<<"t">>))
    /\ sink[2].v[1] = KeyVal(KA, Null) /\ sink[2].v[2] = KeyVal(KK, Str(<<"u">>))
    /\ sink[1].v[3].Key = <<"n">>

(***************************************************************************)
(* Properties of the aggregators (specification SpecAggregate)             *)
(***************************************************************************)

\* what one value contributes to COUNT: a non-null scalar 1, null 0
ScalarCount(x) == IF x.t = "null" THEN 0 ELSE 1

\* the elements of a sequence counted one by one
RECURSIVE ElementCount(_)
ElementCount(items) ==
    IF items = <<>> THEN 0 ELSE ScalarCount(items[1]) + ElementCount(Tail(items))

\* what a record contributes to COUNT(a): nothing when a is missing, the
\* count of its elements when a is a sequence
CountOf(rec) ==
    IF KA \notin DOMAIN rec THEN 0
    ELSE IF rec[KA].t = "arr" THEN ElementCount(rec[KA].v)
    ELSE ScalarCount(rec[KA])

RECURSIVE CountOver(_)
CountOver(rows) == IF rows = <<>> THEN 0 ELSE CountOf(rows[1]) + CountOver(Tail(rows))

\* the run of SELECT COUNT(a) over a table that does not fail has returned
CountDone ==
    pc = "done" /\ input = QCount /\ result = "nil" /\ table = GoodTable(table.rows)

\* C26: COUNT(a) counts the non-null scalar contributions of a over the
\* rows of the group: a non-null scalar counts 1, a null or missing value
\* 0, and a sequence is counted element by element, each element as if it
\* were fed on its own
C26_CountContributions ==
    CountDone => sink = <<OMap(<<KeyVal(fmtKey(FnCOUNT, KA), Num(CountOver(table.rows)))>>)>>

\* the run of an aggregating statement over a table that does not fail has
\* returned
GroupingDone == pc = "done" /\ result = "nil" /\ table = GoodTable(table.rows)

\* the positions of the rows whose field a is a number or a string
ScalarRows ==
    {i \in 1..Len(table.rows) :
        KA \in DOMAIN table.rows[i] /\ table.rows[i][KA].t \in {"num", "str"}}

\* C27: MAX and MIN order two values as the WHERE filter's > and < do: for
\* every two values of the aggregated field, numeric or not, the
\* aggregators' compareGreater and compareLess give what the filter
\* evaluator's compareGreater and compareLess give
C27_SameOrderAsFilter ==
    GroupingDone =>
        \A i, j \in ScalarRows :
            /\ planCompareGreater(table.rows[i][KA], table.rows[j][KA])
                    = compareGreater(table.rows[i][KA], table.rows[j][KA])
            /\ planCompareLess(table.rows[i][KA], table.rows[j][KA])
                    = compareLess(table.rows[i][KA], table.rows[j][KA])

\* C28: an Aggregate iterator executes its input at most once over its
\* lifetime: however often Next is called, the table is asked for an
\* iterator at most once, whether the first drain succeeded, gave no row
\* or failed
C28_ExecuteOnce ==
    (pc \in {"running", "done"} /\ iterator.kind = "aggregate") => world.opens <= 1

\* the GROUP BY value extracted from row i, and the rows that are the first
\* with their value
GroupValue(i) == Extract(table.rows[i], KK)

FirstOfGroup == {i \in 1..Len(table.rows) : \A j \in 1..(i - 1) : GroupValue(j) # GroupValue(i)}

\* C29: two rows are accumulated into one group only if their extracted
\* GROUP BY values are equal: the run emits one row for every distinct
\* extracted value, a missing value being distinct from every string and a
\* number from its numeral
C29_GroupIdentity ==
    (GroupingDone /\ input \in {QGroupMax, QGroupCount}) =>
        Len(sink) = Cardinality(FirstOfGroup)

\* C30: the MAX and the MIN of a group do not depend on the order in which
\* its values arrive: the plan emits the same row over every permutation
\* of the table's rows
C30_MaxMinOrderIndependent ==
    (GroupingDone /\ input = QMaxMin) =>
        \A rows \in Reorderings(table.rows) : OutputOf(rootNode, GoodTable(rows)) = sink

====
